---------------------------- MODULE Spec2Model ----------------------------
(***************************************************************************)
(* State-machine model of the SDMC device of libctru (sdmc_dev.c): the     *)
(* path canonicaliser and encoder, the error translator, the open-file and *)
(* open-directory records, the devoptab operations and sdmcInit/sdmcExit.  *)
(* The FS service is the environment: every FSUSER_/FSFILE_/FSDIR_ call    *)
(* returns a result code chosen nondeterministically, and each operation   *)
(* records the remote calls it issued in the call record `last`.           *)
(***************************************************************************)
EXTENDS Integers, Sequences, FiniteSets, TLC

(***************************************************************************)
(* Bounds of the model.  PATH_MAX (limits.h), sizeof(tmp_buffer) and the   *)
(* capacity of sdmc_dir_t.entry_data are scaled down so that every length   *)
(* and every byte count up to them is enumerated.                          *)
(***************************************************************************)
PATH_MAX == 3
TmpBufferSize == 2
MaxWriteLen == 4
MaxStalls == 1
MaxSize == 1
MaxOffset == 4
MaxSeek == 2
OffBits == 5
U64Bits == 8
max_entries == 2
NAME_MAX == 3
MaxEntries == 3
ErrSpread == 8
MaxPathLen == 3
MaxHandles == 2

(***************************************************************************)
(* errno values (newlib) and the bytes the canonicaliser tests for.        *)
(***************************************************************************)
ENOENT == 2
EBADF == 9
EEXIST == 17
EINVAL == 22
ENOSPC == 28
ENAMETOOLONG == 91
EILSEQ == 138

O_RDONLY == 0
O_WRONLY == 1
O_RDWR == 2

SLASH == 47
COLON == 58
LETTER == 97
LEAD2 == 195
CONT == 169

\* The bytes paths are made of: '/', ':', 'a', and the two bytes of U+00E9
\* (0xC3 0xA9), which alone or out of order are invalid UTF-8.
Letters(n) == [i \in 1..n |-> LETTER]

\* The paths the operations are tried with in SpecPath: absolute, relative,
\* of two-byte characters, with a device prefix, not valid UTF-8 before and
\* after the prefix, with a second ':', and of PATH_MAX bytes and more.
PathSamples ==
  { <<SLASH>>, <<LETTER>>, <<SLASH, LEAD2, CONT>>,
    <<LETTER, COLON, SLASH>>, <<CONT>>, <<LETTER, COLON, LEAD2>>,
    <<COLON, COLON>>, Letters(PATH_MAX), <<SLASH>> \o Letters(PATH_MAX - 1) }
\* The paths sdmc_rename is tried with.
RenameSamples == {<<LETTER>>, <<CONT>>, <<COLON, COLON>>, Letters(PATH_MAX)}

\* The sequences over S of length up to n.
RECURSIVE SeqsUpTo(_, _)
SeqsUpTo(S, n) ==
  IF n = 0 THEN {<<>>}
  ELSE LET shorter == SeqsUpTo(S, n - 1)
       IN shorter \cup {Append(s, b) : s \in {t \in shorter : Len(t) = n - 1}, b \in S}

\* The paths sdmc_open and sdmc_diropen are tried with in SpecFile and
\* SpecDir: one that encodes and one that is not valid UTF-8.
OpenPaths == {<<LETTER>>, <<CONT>>}

(***************************************************************************)
(* Result codes.  Result is a signed 32-bit integer: a code with bit 31    *)
(* set is written here as the negative number it is in C.                  *)
(***************************************************************************)
RC_EXISTS_INFO == 136332478      \* 0x082044BE
RC_NOSPACE_INFO == 140526802     \* 0x086044D2
RC_NOT_FOUND == -931117960       \* 0xC8804478
RC_NOT_FOUND2 == -920632070      \* 0xC92044FA
RC_INVALID == -522172738         \* 0xE0E046BE
RC_TOO_LONG == -522172737        \* 0xE0E046BF
RC_ALREADY_EXISTS == -937409346  \* 0xC82044BE

R_SUCCEEDED(rc) == rc >= 0
R_FAILED(rc) == rc < 0

\* (u32)a < (u32)b for two signed 32-bit values.
U32Less(a, b) ==
  IF (a < 0) = (b < 0) THEN a < b ELSE b < 0

error_table ==
  << [fs_error |-> RC_EXISTS_INFO,  error |-> EEXIST],
     [fs_error |-> RC_NOSPACE_INFO, error |-> ENOSPC],
     [fs_error |-> RC_NOT_FOUND,    error |-> ENOENT],
     [fs_error |-> RC_NOT_FOUND2,   error |-> ENOENT],
     [fs_error |-> RC_INVALID,      error |-> EINVAL],
     [fs_error |-> RC_TOO_LONG,     error |-> ENAMETOOLONG] >>

num_errors == Len(error_table)

\* The mutant of error_cmp: the codes compared as signed numbers.
error_cmp_signed(lhs, rhs) ==
  IF lhs < rhs THEN -1
  ELSE IF lhs > rhs THEN 1
  ELSE 0

\* error_cmp: the fs_error of the two entries compared as u32.
error_cmp(lhs, rhs) ==
  IF U32Less(lhs, rhs) THEN -1
  ELSE IF U32Less(rhs, lhs) THEN 1
  ELSE 0

\* bsearch(3) over table[base+1 .. base+nmemb]: the index found, or 0.
RECURSIVE bsearch(_, _, _, _)
bsearch(key, table, base, nmemb) ==
  IF nmemb = 0 THEN 0
  ELSE LET mid == base + (nmemb \div 2) + 1
           c == error_cmp(key, table[mid].fs_error)
       IN IF c = 0 THEN mid
          ELSE IF c > 0 THEN bsearch(key, table, mid, nmemb - (nmemb \div 2) - 1)
          ELSE bsearch(key, table, base, nmemb \div 2)

sdmc_translate_error(error) ==
  LET rc == bsearch(error, error_table, 0, num_errors)
  IN IF rc # 0 THEN error_table[rc].error ELSE error

(***************************************************************************)
(* Paths.  A path is the sequence of its bytes; the terminating NUL is the *)
(* position after the last one.                                            *)
(***************************************************************************)
ByteAt(p, i) == IF i >= 1 /\ i <= Len(p) THEN p[i] ELSE 0

\* decode_utf8 at byte i of p: the units consumed (-1 for an invalid
\* sequence) and the code point.  One- and two-byte sequences.
decode_utf8(p, i) ==
  LET b == ByteAt(p, i)
      n == ByteAt(p, i + 1)
  IN IF b < 128 THEN [units |-> 1, code |-> b]
     ELSE IF b >= 192 /\ b < 224 /\ n >= 128 /\ n < 192
          THEN [units |-> 2, code |-> (b - 192) * 64 + (n - 128)]
     ELSE [units |-> -1, code |-> 0]

\* utf8_to_utf16: the UTF-16 units of a NUL-terminated UTF-8 string, or <<-1>>
\* when it holds an invalid sequence.
RECURSIVE utf8_to_utf16(_, _)
utf8_to_utf16(p, i) ==
  LET d == decode_utf8(p, i)
  IN IF d.units < 0 THEN <<-1>>
     ELSE IF d.code = 0 THEN <<>>
     ELSE LET rest == utf8_to_utf16(p, i + d.units)
          IN IF rest = <<-1>> THEN rest ELSE <<d.code>> \o rest

\* First loop of sdmc_fixpath (lines 111-121): decode up to the first ':' or
\* the NUL.  stop is the code that ended the loop, next the position after it.
RECURSIVE SkipDevice(_, _)
SkipDevice(p, i) ==
  LET d == decode_utf8(p, i)
  IN IF d.units < 0 THEN [err |-> EILSEQ, stop |-> 0, next |-> i]
     ELSE IF d.code = COLON \/ d.code = 0
          THEN [err |-> 0, stop |-> d.code, next |-> i + d.units]
     ELSE SkipDevice(p, i + d.units)

\* The mutant of CheckRest: the second loop does not test for ':'.
RECURSIVE CheckRestAnyColon(_, _)
CheckRestAnyColon(p, i) ==
  LET d == decode_utf8(p, i)
  IN IF d.units < 0 THEN EILSEQ
     ELSE IF d.code = 0 THEN 0
     ELSE CheckRestAnyColon(p, i + d.units)

\* Second loop (lines 129-146): no further ':' and valid UTF-8 to the NUL.
RECURSIVE CheckRest(_, _)
CheckRest(p, i) ==
  LET d == decode_utf8(p, i)
  IN IF d.units < 0 THEN EILSEQ
     ELSE IF d.code = COLON THEN EINVAL
     ELSE IF d.code = 0 THEN 0
     ELSE CheckRest(p, i + d.units)

Min(a, b) == IF a < b THEN a ELSE b
Max(a, b) == IF a > b THEN a ELSE b
Take(s, n) == SubSeq(s, 1, Min(n, Len(s)))

\* Lines 148-154: the bytes that strncpy, or strncpy and strncat, put in
\* front of the first NUL (the end of the buffer is not looked at).
Joined(dir, path) ==
  IF ByteAt(path, 1) = SLASH THEN Take(path, PATH_MAX + 1)
  ELSE dir \o Take(path, PATH_MAX + 1)

\* The highest index of __fixedpath written: strncpy fills 0..PATH_MAX, and
\* strncat puts its NUL after the bytes it appended to the directory.
TopWritten(dir, path) ==
  IF ByteAt(path, 1) = SLASH THEN PATH_MAX
  ELSE Max(PATH_MAX, Len(dir) + Min(Len(path), PATH_MAX + 1))

\* sdmc_fixpath returns err, the errno it sets (0: none), fixed, the string
\* left in __fixedpath, and top, the highest index of __fixedpath it wrote
\* to (-1: none).
\* The mutant of fixpath_bound: __fixedpath[PATH_MAX] is not tested.
fixpath_unbounded(joined, top) == [err |-> 0, fixed |-> joined, top |-> top]

\* Lines 156-163: the test of __fixedpath[PATH_MAX].
fixpath_bound(joined, top) ==
  IF Len(joined) > PATH_MAX
  THEN [err |-> ENAMETOOLONG, fixed |-> Take(joined, PATH_MAX), top |-> top]
  ELSE [err |-> 0, fixed |-> joined, top |-> top]

\* Lines 129-154, chk being the outcome of the second loop.
fixpath_join(dir, path, chk) ==
  IF chk # 0 THEN [err |-> chk, fixed |-> <<>>, top |-> -1]
  ELSE fixpath_bound(Joined(dir, path), TopWritten(dir, path))

\* Lines 123-125, skip being the outcome of the first loop.
fixpath_skip(dir, rawpath, skip) ==
  IF skip.err # 0 THEN [err |-> skip.err, fixed |-> <<>>, top |-> -1]
  ELSE IF skip.stop = COLON
       THEN fixpath_join(dir, SubSeq(rawpath, skip.next, Len(rawpath)),
                         CheckRest(SubSeq(rawpath, skip.next, Len(rawpath)), 1))
  ELSE fixpath_join(dir, rawpath, CheckRest(rawpath, 1))

sdmc_fixpath(dir, rawpath) == fixpath_skip(dir, rawpath, SkipDevice(rawpath, 1))

\* sdmc_utf16path returns err, the errno it sets, and on success (err = 0)
\* data, the UTF-16 path handed to the FS service, and size, its byte size.
\* Lines 179-196, utf16 being what utf8_to_utf16 made of __fixedpath.
utf16path_encode(fix, utf16) ==
  IF utf16 = <<-1>>
  THEN [err |-> EILSEQ, fixed |-> fix.fixed, data |-> <<>>, size |-> 0]
  ELSE IF Len(utf16) >= PATH_MAX
       THEN [err |-> ENAMETOOLONG, fixed |-> fix.fixed, data |-> <<>>, size |-> 0]
  ELSE [err |-> 0, fixed |-> fix.fixed, data |-> utf16,
        size |-> (Len(utf16) + 1) * 2]

\* The mutant of utf16path_fixed: the result of sdmc_fixpath is not tested.
utf16path_unchecked(fix) == utf16path_encode(fix, utf8_to_utf16(fix.fixed, 1))

\* Lines 175-178, fix being the outcome of sdmc_fixpath.
utf16path_fixed(fix) ==
  IF fix.err # 0
  THEN [err |-> fix.err, fixed |-> fix.fixed, data |-> <<>>, size |-> 0]
  ELSE utf16path_encode(fix, utf8_to_utf16(fix.fixed, 1))

sdmc_utf16path(dir, rawpath) == utf16path_fixed(sdmc_fixpath(dir, rawpath))

(***************************************************************************)
(* State.                                                                  *)
(***************************************************************************)
VARIABLES
  sdmcInitialised,  \* the flag of line 202
  archiveOpen,      \* FS service: the SDMC archive handle is open
  registered,       \* device table: the "sdmc" device is registered
  cwd,              \* __cwd
  file,             \* the sdmc_file_t followed: open fills it when it is free
  fsize,            \* FS service: the size of the file behind file.fd
  dir,              \* the sdmc_dir_t of the latest successful diropen
  listing,          \* FS service: the entries of the directory behind dir.fd
  fetched,          \* FS service: how many of them FSDIR_Read has delivered
  returned,         \* the names dirnext has returned while dir.fd is open
  pc,               \* "idle", or the handler that is between two remote calls
  ws,               \* the locals of a running sdmc_write_safe
  handles,          \* FS service: the file and directory handles that are open
  thread,           \* each thread's position in the operation it is running
  fixedpath,        \* __fixedpath, one for each instance of the storage
  utf16path,        \* __utf16path, likewise
  last,             \* the call record of the latest operation
  prev              \* before sdmcInit and sdmcExit: the call record before last

vars == <<sdmcInitialised, archiveOpen, registered, cwd, file, fsize, dir,
          listing, fetched, returned, pc, ws, handles, thread, fixedpath,
          utf16path, last, prev>>

lifeVars == <<sdmcInitialised, archiveOpen, registered>>
fileVars == <<file, fsize>>
dirVars == <<dir, listing, fetched, returned>>
threadVars == <<thread, fixedpath, utf16path>>

\* The threads that call into the device.
Threads == {1, 2}

\* The result codes the FS service answers with: success, a failure the
\* error table maps, and one it does not.
Results == {0, RC_NOT_FOUND, RC_ALREADY_EXISTS}

RemoteCall(fn, rc) == [fn |-> fn, rc |-> rc]
PathCall(fn, rc, data) == [fn |-> fn, rc |-> rc, path |-> data]
\* FSFILE_GetSize: the size it stores when it succeeds.
SizeCall(rc, size) == [fn |-> "FSFILE_GetSize", rc |-> rc, size |-> size]

\* A call record: the operation, its arguments, what it returned, the errno
\* it set (0: it set none) and the remote calls it issued, in order.
CallOut(op, args, ret, err, calls, out) ==
  [op |-> op, args |-> args, ret |-> ret, err |-> err, calls |-> calls, out |-> out]

Call(op, args, ret, err, calls) == CallOut(op, args, ret, err, calls, <<>>)

NoCall == Call("none", <<>>, 0, 0, <<>>)
NoFile == [open |-> FALSE, acc |-> 0, append |-> FALSE, sync |-> FALSE, offset |-> 0]
NoDir == [open |-> FALSE, index |-> -1, size |-> 0, batch |-> <<>>]
NoWs == [len |-> 0, bytesWritten |-> 0, stalls |-> 0]
NoThread ==
  [pc |-> "idle", path |-> <<>>, ret |-> 0, err |-> 0, calls |-> <<>>, beside |-> {}]

Init ==
  /\ sdmcInitialised = FALSE
  /\ archiveOpen = FALSE
  /\ registered = FALSE
  /\ cwd = <<SLASH>>
  /\ file = NoFile
  /\ fsize = 0
  /\ dir = NoDir
  /\ listing = <<>>
  /\ fetched = 0
  /\ returned = <<>>
  /\ pc = "idle"
  /\ ws = NoWs
  /\ handles = 0
  /\ thread = [t \in Threads |-> NoThread]
  /\ fixedpath = [t \in Threads |-> <<>>]
  /\ utf16path = [t \in Threads |-> <<>>]
  /\ last = NoCall
  /\ prev = NoCall

\* The handles an operation leaves open at the FS service: one for each
\* FSUSER_OpenFile and FSUSER_OpenDirectory that succeeded, less one for each
\* FSFILE_Close and FSDIR_Close that succeeded.
HandleOpens == {"FSUSER_OpenFile", "FSUSER_OpenDirectory"}
HandleCloses == {"FSFILE_Close", "FSDIR_Close"}
HandlesKept(call) ==
  Cardinality({i \in 1..Len(call.calls) :
                 call.calls[i].fn \in HandleOpens /\ R_SUCCEEDED(call.calls[i].rc)})
    - Cardinality({i \in 1..Len(call.calls) :
                     call.calls[i].fn \in HandleCloses /\ R_SUCCEEDED(call.calls[i].rc)})

\* The FS service has MaxHandles handles to give.
HandlesAfter(call) ==
  /\ handles + HandlesKept(call) <= MaxHandles
  /\ handles' = handles + HandlesKept(call)

\* sdmcInit and sdmcExit keep the record of the operation before them; the
\* other operations keep their own only.  An operation recorded in `last` is
\* run by a caller on its own: the threads followed in `thread` stay where
\* they are.
RecordLife(call) ==
  /\ last' = call
  /\ prev' = last
  /\ HandlesAfter(call)
  /\ UNCHANGED threadVars

Record(call) ==
  /\ last' = call
  /\ prev' = NoCall
  /\ HandlesAfter(call)
  /\ UNCHANGED threadVars

Calls(fn) == {i \in 1..Len(last.calls) : last.calls[i].fn = fn}
PrevCalls(fn) == {i \in 1..Len(prev.calls) : prev.calls[i].fn = fn}

(***************************************************************************)
(* sdmc_chdir, as a function of the path and of the answer of the FS       *)
(* service: the call record and the new __cwd.                             *)
(***************************************************************************)
chdir_encoded(name, rc, fs_path) ==
  IF fs_path.err # 0
  THEN [call |-> Call("chdir", [path |-> name, cwd |-> cwd], -1, fs_path.err, <<>>), cwd |-> cwd]
  ELSE IF R_SUCCEEDED(rc)
       THEN [call |-> Call("chdir", [path |-> name, cwd |-> cwd], 0, 0,
                           <<PathCall("FSUSER_OpenDirectory", rc, fs_path.data),
                             RemoteCall("FSDIR_Close", 0)>>),
             cwd |-> Take(fs_path.fixed, PATH_MAX)]
  ELSE [call |-> Call("chdir", [path |-> name, cwd |-> cwd], -1, sdmc_translate_error(rc),
                      <<PathCall("FSUSER_OpenDirectory", rc, fs_path.data)>>),
        cwd |-> cwd]

chdir_result(name, rc) == chdir_encoded(name, rc, sdmc_utf16path(cwd, name))

(***************************************************************************)
(* sdmcInit and sdmcExit.                                                  *)
(***************************************************************************)
\* The device a path names (FindDevice): the text before its first ':' is a
\* device name; a path without ':' belongs to the default device.
DeviceName == <<LETTER>>
HasColon(p) == \E i \in 1..Len(p) : p[i] = COLON
FirstColon(p) == CHOOSE i \in 1..Len(p) : p[i] = COLON /\ \A j \in 1..(i - 1) : p[j] # COLON
OnThisDevice(p) == ~HasColon(p) \/ SubSeq(p, 1, FirstColon(p) - 1) = DeviceName

\* Lines 238-253: the index of the last '/' of the string, 0 when there is
\* none or when the string is not valid UTF-8.
RECURSIVE LastSlash(_, _, _)
LastSlash(p, i, found) ==
  LET d == decode_utf8(p, i)
  IN IF d.units < 0 THEN 0
     ELSE IF d.code = 0 THEN found
     ELSE LastSlash(p, i + d.units, IF d.code = SLASH THEN i ELSE found)

\* The launch paths tried, all absolute and without a device prefix but the
\* last, which names another device.
Argv0s ==
  { <<SLASH, LETTER>>,
    <<SLASH, LETTER, SLASH, LETTER>>,
    <<SLASH, LEAD2, CONT, SLASH, LETTER>>,
    <<LEAD2, CONT, COLON, SLASH, LETTER>> }

\* The mutant of InitGuard: sdmcInit does not look at sdmcInitialised.
InitGuardMissing == FALSE

\* Line 213: sdmcInit returns at once when the flag is set.
InitGuard == sdmcInitialised

\* The mutant of device_added: AddDevice is called whatever FSUSER_OpenArchive
\* answered.
device_added_unopened(rcOpen, dev) == dev # -1

\* Lines 217-223: AddDevice is called after FSUSER_OpenArchive succeeded, and
\* registers the device unless it returns -1.
device_added(rcOpen, dev) == R_SUCCEEDED(rcOpen) /\ dev # -1

\* hasArgv: __system_argc != 0 and argv[0] != NULL; rcOpen, dev, rcDir: the
\* answers of FSUSER_OpenArchive, AddDevice and FSUSER_OpenDirectory.
sdmcInit(hasArgv, argv0, rcOpen, dev, rcDir) ==
  /\ pc = "idle"
  /\ IF InitGuard
     THEN /\ RecordLife(Call("sdmcInit", <<>>, 0, 0, <<>>))
          /\ UNCHANGED <<lifeVars, cwd>>
     ELSE /\ sdmcInitialised' = TRUE
          /\ archiveOpen' = (archiveOpen \/ R_SUCCEEDED(rcOpen))
          /\ registered' = (registered \/ device_added(rcOpen, dev))
          /\ IF R_FAILED(rcOpen)
             THEN /\ RecordLife(Call("sdmcInit", <<>>, rcOpen, 0,
                                 <<RemoteCall("FSUSER_OpenArchive", rcOpen)>>))
                  /\ cwd' = cwd
             ELSE \E slash \in {LastSlash(Take(argv0, PATH_MAX), 1, 0)} :
                    IF dev = -1 \/ ~hasArgv \/ ~OnThisDevice(argv0) \/ slash = 0
                    THEN /\ RecordLife(Call("sdmcInit", <<>>, rcOpen, 0,
                                        <<RemoteCall("FSUSER_OpenArchive", rcOpen),
                                          RemoteCall("AddDevice", dev)>>))
                         /\ cwd' = cwd
                    ELSE \E cd \in {chdir_result(SubSeq(argv0, 1, slash - 1), rcDir)} :
                           /\ RecordLife(Call("sdmcInit", <<>>, rcOpen, 0,
                                          <<RemoteCall("FSUSER_OpenArchive", rcOpen),
                                            RemoteCall("AddDevice", dev)>>
                                          \o cd.call.calls))
                           /\ cwd' = cd.cwd
  /\ UNCHANGED <<fileVars, dirVars, pc, ws>>

\* The mutant of ExitGuard: sdmcExit does not look at sdmcInitialised.
ExitGuardMissing == FALSE

\* Line 291: sdmcExit returns at once when the flag is clear.
ExitGuard == ~sdmcInitialised

\* rcClose: the answer of FSUSER_CloseArchive, which does not succeed on an
\* archive handle that is not open.
sdmcExit(rcClose) ==
  /\ pc = "idle"
  /\ R_SUCCEEDED(rcClose) => archiveOpen
  /\ IF ExitGuard
     THEN /\ RecordLife(Call("sdmcExit", <<>>, 0, 0, <<>>))
          /\ UNCHANGED lifeVars
     ELSE IF R_SUCCEEDED(rcClose)
          THEN /\ RecordLife(Call("sdmcExit", <<>>, rcClose, 0,
                              <<RemoteCall("FSUSER_CloseArchive", rcClose),
                                RemoteCall("RemoveDevice", 0)>>))
               /\ sdmcInitialised' = FALSE
               /\ archiveOpen' = FALSE
               /\ registered' = FALSE
     ELSE /\ RecordLife(Call("sdmcExit", <<>>, rcClose, 0,
                         <<RemoteCall("FSUSER_CloseArchive", rcClose)>>))
          /\ UNCHANGED lifeVars
  /\ UNCHANGED <<cwd, fileVars, dirVars, pc, ws>>

LifeNext ==
  \/ \E hasArgv \in BOOLEAN, argv0 \in Argv0s, rcOpen \in Results,
        dev \in {-1, 0}, rcDir \in Results :
       sdmcInit(hasArgv, argv0, rcOpen, dev, rcDir)
  \/ \E rcClose \in Results : sdmcExit(rcClose)

SpecLife == Init /\ [][LifeNext]_vars

(***************************************************************************)
(* sdmc_open and sdmc_close.  The flags of open(2) are a record: acc is    *)
(* flags & O_ACCMODE, the other fields are the bits O_APPEND, O_SYNC,      *)
(* O_CREAT, O_EXCL and O_TRUNC.                                            *)
(***************************************************************************)
\* O_EXCL is tried together with O_CREAT only.
OpenFlags ==
  {f \in [acc : 0..3, append : BOOLEAN, sync : BOOLEAN, creat : BOOLEAN,
          excl : BOOLEAN, trunc : BOOLEAN] : f.excl => f.creat}

\* The mutant of read_only_append: O_APPEND is let through on O_RDONLY.
read_only_append_allowed(flags) == FALSE

\* Lines 339-345: read-only, do not allow O_APPEND.
read_only_append(flags) == flags.acc = O_RDONLY /\ flags.append

\* Lines 336-362: the errno of the access-mode switch (0: the mode is fine).
open_mode_errno(flags) ==
  IF flags.acc = O_RDONLY THEN (IF read_only_append(flags) THEN EINVAL ELSE 0)
  ELSE IF flags.acc = O_WRONLY \/ flags.acc = O_RDWR THEN 0
  ELSE EINVAL

\* The arguments of an operation on a path, with __cwd at the call.
PathArgs(path) == [path |-> path, cwd |-> cwd]
OpenArgs(path, flags) == [path |-> path, cwd |-> cwd, flags |-> flags]

\* The mutant of undo_open: the handle is not closed.
undo_open_missing == <<>>

\* Line 393: the resize failed, the handle FSUSER_OpenFile gave is closed.
undo_open == <<RemoteCall("FSFILE_Close", 0)>>

\* Lines 384-406: FSUSER_OpenFile and the resize to zero; pre holds the
\* remote calls issued before.  ok: the file struct was filled in.
open_file(path, flags, data, pre, rcOpen, rcSize) ==
  IF R_FAILED(rcOpen)
  THEN [ok |-> FALSE, truncated |-> FALSE,
        call |-> Call("open", OpenArgs(path, flags), -1, sdmc_translate_error(rcOpen),
                      pre \o <<PathCall("FSUSER_OpenFile", rcOpen, data)>>)]
  ELSE IF flags.acc # O_RDONLY /\ flags.trunc
       THEN IF R_FAILED(rcSize)
            THEN [ok |-> FALSE, truncated |-> FALSE,
                  call |-> Call("open", OpenArgs(path, flags), -1,
                                sdmc_translate_error(rcSize),
                                pre \o <<PathCall("FSUSER_OpenFile", rcOpen, data),
                                         RemoteCall("FSFILE_SetSize", rcSize)>>
                                    \o undo_open)]
            ELSE [ok |-> TRUE, truncated |-> TRUE,
                  call |-> Call("open", OpenArgs(path, flags), 0, 0,
                                pre \o <<PathCall("FSUSER_OpenFile", rcOpen, data),
                                         RemoteCall("FSFILE_SetSize", rcSize)>>)]
  ELSE [ok |-> TRUE, truncated |-> FALSE,
        call |-> Call("open", OpenArgs(path, flags), 0, 0,
                      pre \o <<PathCall("FSUSER_OpenFile", rcOpen, data)>>)]

\* Lines 328-377, fs_path being the outcome of sdmc_utf16path.
open_encoded(path, flags, fs_path, rcCreate, rcOpen, rcSize) ==
  IF fs_path.err # 0
  THEN [ok |-> FALSE, truncated |-> FALSE,
        call |-> Call("open", OpenArgs(path, flags), -1, fs_path.err, <<>>)]
  ELSE IF open_mode_errno(flags) # 0
       THEN [ok |-> FALSE, truncated |-> FALSE,
             call |-> Call("open", OpenArgs(path, flags), -1, open_mode_errno(flags), <<>>)]
  ELSE IF flags.creat /\ flags.excl
       THEN IF R_FAILED(rcCreate)
            THEN [ok |-> FALSE, truncated |-> FALSE,
                  call |-> Call("open", OpenArgs(path, flags), -1,
                                sdmc_translate_error(rcCreate),
                                <<PathCall("FSUSER_CreateFile", rcCreate, fs_path.data)>>)]
            ELSE open_file(path, flags, fs_path.data,
                           <<PathCall("FSUSER_CreateFile", rcCreate, fs_path.data)>>,
                           rcOpen, rcSize)
  ELSE open_file(path, flags, fs_path.data, <<>>, rcOpen, rcSize)

\* rcCreate, rcOpen, rcSize: the answers of FSUSER_CreateFile, FSUSER_OpenFile
\* and FSFILE_SetSize; size: the size of the file that was opened.  The
\* sdmc_file_t it fills is the followed one when that is free, and one the
\* model does not follow otherwise.
sdmc_open(path, flags, rcCreate, rcOpen, rcSize, size) ==
  /\ pc = "idle"
  /\ \E res \in {open_encoded(path, flags, sdmc_utf16path(cwd, path),
                              rcCreate, rcOpen, rcSize)} :
       /\ Record(res.call)
       /\ IF res.ok /\ ~file.open
          THEN /\ file' = [open |-> TRUE, acc |-> flags.acc, append |-> flags.append,
                           sync |-> flags.sync, offset |-> 0]
               /\ fsize' = IF res.truncated THEN 0 ELSE size
          ELSE UNCHANGED fileVars
  /\ UNCHANGED <<lifeVars, cwd, dirVars, pc, ws>>

sdmc_close(rc) ==
  /\ pc = "idle"
  /\ file.open
  /\ IF R_SUCCEEDED(rc)
     THEN /\ Record(Call("close", <<>>, 0, 0, <<RemoteCall("FSFILE_Close", rc)>>))
          /\ file' = NoFile
          /\ fsize' = 0
     ELSE /\ Record(Call("close", <<>>, -1, sdmc_translate_error(rc),
                         <<RemoteCall("FSFILE_Close", rc)>>))
          /\ UNCHANGED fileVars
  /\ UNCHANGED <<lifeVars, cwd, dirVars, pc, ws>>

(***************************************************************************)
(* sdmc_write, sdmc_write_safe and sdmc_read.                              *)
(***************************************************************************)
\* FSFILE_GetSize on the open file.
GetSize(rc) == SizeCall(rc, IF R_SUCCEEDED(rc) THEN fsize ELSE 0)

\* A remote read or write: the offset and length asked for, and the bytes
\* transferred (0 when it failed).
IoCall(fn, rc, offset, len, bytes) ==
  [fn |-> fn, rc |-> rc, offset |-> offset, len |-> len, bytes |-> bytes]

\* The arguments of a write or read, with the stored offset at the call.
IoArgs(len) == [len |-> len, offset |-> file.offset]

\* The mutant of write_denied: the access mode is not tested.
write_allowed(f) == FALSE

\* Lines 458 and 516: the file was not opened with write access.
write_denied(f) == f.acc = O_RDONLY

\* The file after a remote write of `bytes` bytes at `offset`.
Written(offset, bytes) == IF offset + bytes > fsize THEN offset + bytes ELSE fsize

\* The mutant of write_position: O_APPEND is not looked at.
write_position_stored(f) == f.offset

\* Lines 468-477 and 526-535: the offset the first remote write goes to, the
\* size FSFILE_GetSize stored in file->offset under O_APPEND.
write_position(f) == IF f.append THEN fsize ELSE f.offset

\* rcSize, rcWrite: the answers of FSFILE_GetSize and FSFILE_Write; bytes:
\* the bytes FSFILE_Write reports written.
sdmc_write(len, rcSize, rcWrite, bytes) ==
  /\ pc = "idle"
  /\ file.open
  /\ bytes \in 0..len
  /\ (IF file.offset > fsize THEN file.offset ELSE fsize) + len <= MaxOffset
  /\ IF write_denied(file)
     THEN /\ Record(Call("write", IoArgs(len), -1, EBADF, <<>>))
          /\ UNCHANGED fileVars
     ELSE IF file.append /\ R_FAILED(rcSize)
     THEN /\ Record(Call("write", IoArgs(len), -1, sdmc_translate_error(rcSize),
                         <<GetSize(rcSize)>>))
          /\ UNCHANGED fileVars
     ELSE \E at \in {write_position(file)},
             pre \in {IF file.append THEN <<GetSize(rcSize)>> ELSE <<>>} :
            IF R_FAILED(rcWrite)
            THEN /\ Record(Call("write", IoArgs(len), -1, sdmc_translate_error(rcWrite),
                                pre \o <<IoCall("FSFILE_Write", rcWrite, at, len, 0)>>))
                 /\ file' = [file EXCEPT !.offset = at]
                 /\ fsize' = fsize
            ELSE /\ Record(Call("write", IoArgs(len), bytes, 0,
                                pre \o <<IoCall("FSFILE_Write", rcWrite, at, len, bytes)>>))
                 /\ file' = [file EXCEPT !.offset = at + bytes]
                 /\ fsize' = Written(at, bytes)
  /\ UNCHANGED <<lifeVars, cwd, dirVars, pc, ws>>

\* Lines 516-535 and the first test of the loop condition (line 541).
write_safe_begin(len, rcSize) ==
  /\ pc = "idle"
  /\ file.open
  /\ (IF file.offset > fsize THEN file.offset ELSE fsize) + len <= MaxOffset
  /\ IF write_denied(file)
     THEN /\ Record(Call("write_safe", IoArgs(len), -1, EBADF, <<>>))
          /\ UNCHANGED <<fileVars, pc, ws>>
     ELSE IF file.append /\ R_FAILED(rcSize)
     THEN /\ Record(Call("write_safe", IoArgs(len), -1, sdmc_translate_error(rcSize),
                         <<GetSize(rcSize)>>))
          /\ UNCHANGED <<fileVars, pc, ws>>
     ELSE /\ Record(Call("write_safe", IoArgs(len), 0, 0,
                         IF file.append THEN <<GetSize(rcSize)>>
                         ELSE <<>>))
          /\ file' = [file EXCEPT !.offset = write_position(file)]
          /\ fsize' = fsize
          /\ pc' = IF len > 0 THEN "write_safe" ELSE "idle"
          /\ ws' = IF len > 0 THEN [len |-> len, bytesWritten |-> 0, stalls |-> 0]
                   ELSE NoWs
  /\ UNCHANGED <<lifeVars, cwd, dirVars>>

\* The mutant of chunk_size: the whole remainder goes out in one call.
chunk_size_unbounded(len) == len

\* Lines 543-545: toWrite.
chunk_size(len) == IF len > TmpBufferSize THEN TmpBufferSize ELSE len

\* The mutant of partial_return: a failing chunk always reports the error.
partial_return_dropped(bytesWritten) == FALSE

\* Line 556: return partial transfer.
partial_return(bytesWritten) == bytesWritten > 0

\* Lines 541-569: one turn of the loop of sdmc_write_safe, and the return
\* that ends it.  A remote write that succeeds with no byte written leaves
\* the loop where it was; the model lets that happen MaxStalls times.
write_safe_chunk(rcWrite, bytes) ==
  /\ pc = "write_safe"
  /\ bytes \in 0..chunk_size(ws.len)
  /\ (R_SUCCEEDED(rcWrite) /\ bytes = 0) => ws.stalls < MaxStalls
  /\ IF R_FAILED(rcWrite)
     THEN /\ last' = [last EXCEPT
                 !.calls = Append(@, IoCall("FSFILE_Write", rcWrite, file.offset,
                                            chunk_size(ws.len), 0)),
                 !.ret = IF partial_return(ws.bytesWritten) THEN ws.bytesWritten ELSE -1,
                 !.err = IF partial_return(ws.bytesWritten) THEN 0
                         ELSE sdmc_translate_error(rcWrite)]
          /\ UNCHANGED fileVars
          /\ pc' = "idle"
          /\ ws' = NoWs
     ELSE /\ last' = [last EXCEPT
                 !.calls = Append(@, IoCall("FSFILE_Write", rcWrite, file.offset,
                                            chunk_size(ws.len), bytes)),
                 !.ret = ws.bytesWritten + bytes]
          /\ file' = [file EXCEPT !.offset = @ + bytes]
          /\ fsize' = Written(file.offset, bytes)
          /\ pc' = IF ws.len - bytes > 0 THEN "write_safe" ELSE "idle"
          /\ ws' = IF ws.len - bytes > 0
                   THEN [len |-> ws.len - bytes, bytesWritten |-> ws.bytesWritten + bytes,
                         stalls |-> IF bytes = 0 THEN ws.stalls + 1 ELSE ws.stalls]
                   ELSE NoWs
  /\ UNCHANGED <<lifeVars, cwd, dirVars, handles, threadVars, prev>>

\* rc: the answer of FSFILE_Read; bytes: the bytes it reports read, no more
\* than the file holds from the offset on.
sdmc_read(len, rc, bytes) ==
  /\ pc = "idle"
  /\ file.open
  /\ bytes \in 0..len
  /\ file.offset + bytes <= (IF file.offset > fsize THEN file.offset ELSE fsize)
  /\ IF file.acc = O_WRONLY
     THEN /\ Record(Call("read", IoArgs(len), -1, EBADF, <<>>))
          /\ UNCHANGED fileVars
     ELSE IF R_SUCCEEDED(rc)
     THEN /\ Record(Call("read", IoArgs(len), bytes, 0,
                         <<IoCall("FSFILE_Read", rc, file.offset, len, bytes)>>))
          /\ file' = [file EXCEPT !.offset = @ + bytes]
          /\ fsize' = fsize
     ELSE /\ Record(Call("read", IoArgs(len), -1, sdmc_translate_error(rc),
                         <<IoCall("FSFILE_Read", rc, file.offset, len, 0)>>))
          /\ UNCHANGED fileVars
  /\ UNCHANGED <<lifeVars, cwd, dirVars, pc, ws>>

(***************************************************************************)
(* sdmc_seek.  off_t has OffBits bits and u64 U64Bits bits.                *)
(***************************************************************************)
RECURSIVE Pow2(_)
Pow2(n) == IF n = 0 THEN 1 ELSE 2 * Pow2(n - 1)

OffMin == -Pow2(OffBits - 1)
OffMax == Pow2(OffBits - 1) - 1

\* -pos in off_t: the negation of the least value wraps to itself.
NegOff(pos) == IF pos = OffMin THEN OffMin ELSE -pos
\* The conversion of an off_t to u64, and the sum of a u64 and an off_t.
ToU64(x) == IF x < 0 THEN x + Pow2(U64Bits) ELSE x
U64Add(offset, pos) == (offset + ToU64(pos)) % Pow2(U64Bits)
\* The conversion of a u64 to off_t (the value returned).
ToOff(x) ==
  IF x % Pow2(OffBits) > OffMax THEN (x % Pow2(OffBits)) - Pow2(OffBits)
  ELSE x % Pow2(OffBits)

Whences == {"SEEK_SET", "SEEK_CUR", "SEEK_END", "other"}
\* The positions tried: the ends of off_t and the ones around zero.
SeekPositions == {OffMin, OffMax} \cup (-MaxSeek..MaxSeek)

\* The mutant of seek_before_start: a negative result is not looked for.
seek_unchecked(offset, pos) == FALSE

\* Line 666: pos < 0 && offset < -pos.
seek_before_start(offset, pos) == pos < 0 /\ offset < ToU64(NegOff(pos))

\* Lines 666-675, offset being the base the switch chose.  The offsets
\* followed are those up to MaxOffset, the greatest off_t and the one after.
seek_from(pos, whence, offset, calls) ==
  IF seek_before_start(offset, pos)
  THEN /\ Record(Call("seek", [pos |-> pos, whence |-> whence, base |-> offset,
                               offset |-> file.offset], -1, EINVAL, calls))
       /\ UNCHANGED fileVars
  ELSE /\ offset + pos <= MaxOffset \/ offset + pos \in {OffMax, OffMax + 1}
       /\ Record(Call("seek", [pos |-> pos, whence |-> whence, base |-> offset,
                               offset |-> file.offset],
                      ToOff(U64Add(offset, pos)), 0, calls))
       /\ file' = [file EXCEPT !.offset = U64Add(offset, pos)]
       /\ fsize' = fsize

\* rcSize: the answer of FSFILE_GetSize.
sdmc_seek(pos, whence, rcSize) ==
  /\ pc = "idle"
  /\ file.open
  /\ IF whence = "SEEK_SET" THEN seek_from(pos, whence, 0, <<>>)
     ELSE IF whence = "SEEK_CUR" THEN seek_from(pos, whence, file.offset, <<>>)
     ELSE IF whence = "SEEK_END"
     THEN IF R_FAILED(rcSize)
          THEN /\ Record(Call("seek", [pos |-> pos, whence |-> whence, base |-> 0,
                                       offset |-> file.offset],
                              -1, sdmc_translate_error(rcSize),
                              <<GetSize(rcSize)>>))
               /\ UNCHANGED fileVars
          ELSE seek_from(pos, whence, fsize, <<GetSize(rcSize)>>)
     ELSE /\ Record(Call("seek", [pos |-> pos, whence |-> whence, base |-> 0,
                                  offset |-> file.offset], -1, EINVAL, <<>>))
          /\ UNCHANGED fileVars
  /\ UNCHANGED <<lifeVars, cwd, dirVars, pc, ws>>

\* The answers of the FS service are drawn where the handler asks for them.
AnswersIf(asked) == IF asked THEN Results ELSE {0}

\* The remote calls sdmc_open reaches: none when the path (encodes: it went
\* through sdmc_utf16path) or the access mode is refused, FSUSER_CreateFile
\* for O_CREAT | O_EXCL, FSUSER_OpenFile after it, FSFILE_SetSize when the
\* file is truncated.
open_reaches_remote(encodes, flags) == encodes /\ open_mode_errno(flags) = 0

FileNext ==
  \/ \E path \in {p \in OpenPaths : ~file.open} :
       \E encodes \in {sdmc_utf16path(cwd, path).err = 0} :
         \E flags \in OpenFlags :
           \E reaches \in {open_reaches_remote(encodes, flags)} :
             \E rcCreate \in AnswersIf(reaches /\ flags.creat /\ flags.excl) :
               \E rcOpen \in AnswersIf(reaches /\ R_SUCCEEDED(rcCreate)) :
                 \E rcSize \in AnswersIf(reaches /\ R_SUCCEEDED(rcCreate)
                                         /\ R_SUCCEEDED(rcOpen)
                                         /\ flags.acc # O_RDONLY /\ flags.trunc),
                    size \in (IF reaches /\ R_SUCCEEDED(rcCreate) /\ R_SUCCEEDED(rcOpen)
                              THEN 0..MaxSize ELSE {0}) :
                   sdmc_open(path, flags, rcCreate, rcOpen, rcSize, size)
  \/ \E rc \in Results : sdmc_close(rc)
  \/ \E len \in 0..MaxWriteLen, rcSize \in AnswersIf(file.append), rcWrite \in Results :
       \E bytes \in (IF R_SUCCEEDED(rcWrite) THEN 0..len ELSE {0}) :
         sdmc_write(len, rcSize, rcWrite, bytes)
  \/ \E len \in 0..MaxWriteLen, rcSize \in AnswersIf(file.append) :
       write_safe_begin(len, rcSize)
  \/ \E rcWrite \in Results :
       \E bytes \in (IF R_SUCCEEDED(rcWrite) THEN 0..TmpBufferSize ELSE {0}) :
         write_safe_chunk(rcWrite, bytes)
  \/ \E len \in 0..MaxWriteLen, rc \in Results :
       \E bytes \in (IF R_SUCCEEDED(rc) THEN 0..len ELSE {0}) :
         sdmc_read(len, rc, bytes)
  \/ \E pos \in SeekPositions, whence \in Whences :
       \E rcSize \in AnswersIf(whence = "SEEK_END") : sdmc_seek(pos, whence, rcSize)

SpecFile == Init /\ [][FileNext]_vars

(***************************************************************************)
(* Writes on a file opened with O_APPEND, while another writer grows it.   *)
(***************************************************************************)
AppendFlags ==
  {f \in OpenFlags : f.append /\ f.acc # O_RDONLY /\ f.acc # 3 /\ ~f.sync /\ ~f.creat /\ ~f.trunc}

\* FS service: another writer appends a byte to the file behind file.fd.
other_writer ==
  /\ file.open
  /\ fsize < MaxOffset
  /\ fsize' = fsize + 1
  /\ UNCHANGED <<lifeVars, cwd, file, dirVars, pc, ws, handles, threadVars, last, prev>>

AppendNext ==
  \/ \E path \in {p \in OpenPaths : ~file.open}, flags \in AppendFlags :
       \E rcOpen \in AnswersIf(sdmc_utf16path(cwd, path).err = 0) :
         \E size \in (IF R_SUCCEEDED(rcOpen) THEN 0..MaxSize ELSE {0}) :
           sdmc_open(path, flags, 0, rcOpen, 0, size)
  \/ \E rc \in Results : sdmc_close(rc)
  \/ \E len \in 0..MaxWriteLen, rcSize \in Results, rcWrite \in Results :
       \E bytes \in (IF R_SUCCEEDED(rcWrite) THEN 0..len ELSE {0}) :
         sdmc_write(len, rcSize, rcWrite, bytes)
  \/ \E len \in 0..MaxWriteLen, rcSize \in Results : write_safe_begin(len, rcSize)
  \/ \E rcWrite \in Results :
       \E bytes \in (IF R_SUCCEEDED(rcWrite) THEN 0..TmpBufferSize ELSE {0}) :
         write_safe_chunk(rcWrite, bytes)
  \/ \E pos \in 0..MaxSeek : sdmc_seek(pos, "SEEK_SET", 0)
  \/ other_writer

SpecAppend == Init /\ [][AppendNext]_vars

(***************************************************************************)
(* sdmc_diropen, sdmc_dirnext and sdmc_dirclose.  A directory entry is its *)
(* name, a sequence of UTF-16 units; entry_data holds max_entries of them, *)
(* a zeroed one being the empty name.                                      *)
(***************************************************************************)
\* encode_utf8: the bytes of a code point.
encode_utf8(code) ==
  IF code < 128 THEN <<code>>
  ELSE IF code < 2048 THEN <<192 + (code \div 64), 128 + (code % 64)>>
  ELSE IF code < 65536
       THEN <<224 + (code \div 4096), 128 + ((code \div 64) % 64), 128 + (code % 64)>>
  ELSE <<240 + (code \div 262144), 128 + ((code \div 4096) % 64),
         128 + ((code \div 64) % 64), 128 + (code % 64)>>

IsLeadSurrogate(u) == u >= 55296 /\ u < 56320
IsTrailSurrogate(u) == u >= 56320 /\ u < 57344

\* utf16_to_utf8: the UTF-8 bytes of a NUL-terminated UTF-16 string, or <<-1>>
\* when it holds a surrogate that is not part of a pair.
RECURSIVE utf16_to_utf8(_, _)
utf16_to_utf8(name, i) ==
  IF i > Len(name) THEN <<>>
  ELSE IF IsLeadSurrogate(name[i]) /\ i < Len(name) /\ IsTrailSurrogate(name[i + 1])
       THEN LET rest == utf16_to_utf8(name, i + 2)
            IN IF rest = <<-1>> THEN rest
               ELSE encode_utf8(65536 + (name[i] - 55296) * 1024 + (name[i + 1] - 56320))
                    \o rest
  ELSE IF IsLeadSurrogate(name[i]) \/ IsTrailSurrogate(name[i]) THEN <<-1>>
  ELSE LET rest == utf16_to_utf8(name, i + 1)
       IN IF rest = <<-1>> THEN rest ELSE encode_utf8(name[i]) \o rest

\* The entry names the FS service lists: 'a', U+00E9 (two bytes of UTF-8),
\* the two together (NAME_MAX bytes) and a trail surrogate alone.
DirNames == {<<LETTER>>, <<233>>, <<LETTER, 233>>, <<56320>>}
Listings == SeqsUpTo(DirNames, MaxEntries)

ZeroEntry == <<>>
ZeroBatch == [i \in 1..max_entries |-> ZeroEntry]

ReadCall(rc, entries) == [fn |-> "FSDIR_Read", rc |-> rc, entries |-> entries]

\* rc: the answer of FSUSER_OpenDirectory; entries: the directory behind the
\* handle it returns.  The sdmc_dir_t it fills is the followed one when that
\* is free, and one the model does not follow otherwise.
sdmc_diropen(path, rc, entries) ==
  /\ pc = "idle"
  /\ \E fs_path \in {sdmc_utf16path(cwd, path)} :
       IF fs_path.err # 0
       THEN /\ Record(Call("diropen", PathArgs(path), -1, fs_path.err, <<>>))
            /\ UNCHANGED dirVars
       ELSE IF R_SUCCEEDED(rc) /\ dir.open
       THEN /\ Record(Call("diropen", PathArgs(path), 0, 0,
                           <<PathCall("FSUSER_OpenDirectory", rc, fs_path.data)>>))
            /\ UNCHANGED dirVars
       ELSE IF R_SUCCEEDED(rc)
       THEN /\ Record(Call("diropen", PathArgs(path), 0, 0,
                           <<PathCall("FSUSER_OpenDirectory", rc, fs_path.data)>>))
            /\ dir' = [open |-> TRUE, index |-> -1, size |-> 0, batch |-> ZeroBatch]
            /\ listing' = entries
            /\ fetched' = 0
            /\ returned' = <<>>
       ELSE /\ Record(Call("diropen", PathArgs(path), -1, sdmc_translate_error(rc),
                           <<PathCall("FSUSER_OpenDirectory", rc, fs_path.data)>>))
            /\ UNCHANGED dirVars
  /\ UNCHANGED <<lifeVars, cwd, fileVars, pc, ws>>

\* The mutant of in_batch: the batch is never looked at.
in_batch_never(index, size) == FALSE

\* Line 992: ++dir->index < dir->size, index being the value before.
in_batch(index, size) == index + 1 < size

\* The mutant of batch_reset: the cursor stays where ++dir->index left it.
batch_advanced(d) == [d EXCEPT !.index = @ + 1]

\* Lines 999-1001: the cursor and the batch are reset before FSDIR_Read.
batch_reset(d) == [d EXCEPT !.index = -1, !.size = 0, !.batch = ZeroBatch]

\* The arguments of a dirnext: how many entries were returned before it.
NextArgs == [count |-> Len(returned)]

\* Lines 1019-1047: the entry at dir->index is converted and returned.
dirnext_entry(entry, calls) ==
  IF utf16_to_utf8(entry, 1) = <<-1>>
  THEN /\ Record(Call("dirnext", NextArgs, -1, EILSEQ, calls))
       /\ returned' = returned
  ELSE IF Len(utf16_to_utf8(entry, 1)) >= NAME_MAX
  THEN /\ Record(Call("dirnext", NextArgs, -1, ENAMETOOLONG, calls))
       /\ returned' = returned
  ELSE /\ Record(CallOut("dirnext", NextArgs, 0, 0, calls, utf16_to_utf8(entry, 1)))
       /\ returned' = Append(returned, utf16_to_utf8(entry, 1))

\* rc, entries: the answer of FSDIR_Read and the count it stores, which is
\* zero only at the end of the directory.
sdmc_dirnext(rc, entries) ==
  /\ pc = "idle"
  /\ dir.open
  /\ IF in_batch(dir.index, dir.size)
     THEN /\ dir' = [dir EXCEPT !.index = @ + 1]
          /\ fetched' = fetched
          /\ dirnext_entry(dir.batch[dir.index + 2], <<>>)
     ELSE IF R_FAILED(rc)
     THEN /\ dir' = batch_reset(dir)
          /\ fetched' = fetched
          /\ returned' = returned
          /\ Record(Call("dirnext", NextArgs, -1, sdmc_translate_error(rc),
                         <<ReadCall(rc, 0)>>))
     ELSE IF entries = 0
     THEN /\ dir' = batch_reset(dir)
          /\ fetched' = fetched
          /\ returned' = returned
          /\ Record(Call("dirnext", NextArgs, -1, ENOENT, <<ReadCall(rc, 0)>>))
     ELSE /\ dir' = [dir EXCEPT !.index = 0, !.size = entries,
                       !.batch = [i \in 1..max_entries |->
                                    IF i <= entries THEN listing[fetched + i]
                                    ELSE ZeroEntry]]
          /\ fetched' = fetched + entries
          /\ dirnext_entry(listing[fetched + 1], <<ReadCall(rc, entries)>>)
  /\ listing' = listing
  /\ UNCHANGED <<lifeVars, cwd, fileVars, pc, ws>>

sdmc_dirclose(rc) ==
  /\ pc = "idle"
  /\ dir.open
  /\ IF R_SUCCEEDED(rc)
     THEN /\ Record(Call("dirclose", <<>>, 0, 0, <<RemoteCall("FSDIR_Close", rc)>>))
          /\ dir' = [dir EXCEPT !.open = FALSE]
          /\ listing' = <<>>
          /\ fetched' = 0
          /\ returned' = <<>>
     ELSE /\ Record(Call("dirclose", <<>>, -1, sdmc_translate_error(rc),
                         <<RemoteCall("FSDIR_Close", rc)>>))
          /\ UNCHANGED dirVars
  /\ UNCHANGED <<lifeVars, cwd, fileVars, pc, ws>>

\* The counts FSDIR_Read answers with: between one and max_entries of the
\* entries that are left, zero when none is.
ReadCounts(rc) ==
  IF R_FAILED(rc) \/ in_batch(dir.index, dir.size) \/ fetched = Len(listing) THEN {0}
  ELSE 1..Min(max_entries, Len(listing) - fetched)

DirNext ==
  \/ \E path \in {p \in OpenPaths : ~dir.open}, rc \in Results :
       \E entries \in (IF R_SUCCEEDED(rc) THEN Listings ELSE {<<>>}) :
         sdmc_diropen(path, rc, entries)
  \/ \E rc \in AnswersIf(~in_batch(dir.index, dir.size)) :
       \E entries \in ReadCounts(rc) : sdmc_dirnext(rc, entries)
  \/ \E rc \in Results : sdmc_dirclose(rc)

SpecDir == Init /\ [][DirNext]_vars

(***************************************************************************)
(* The operations on a path: sdmc_stat, sdmc_unlink, sdmc_chdir,           *)
(* sdmc_rename, sdmc_mkdir, sdmc_rmdir, sdmc_statvfs and sdmc_getmtime.    *)
(***************************************************************************)
\* Lines 730-746, fs_path being the outcome of sdmc_utf16path; rcOpen,
\* rcSize, rcDir: the answers of FSUSER_OpenFile, FSFILE_GetSize (sdmc_fstat)
\* and FSUSER_OpenDirectory.
stat_encoded(file_, fs_path, rcOpen, rcSize, rcDir) ==
  IF fs_path.err # 0 THEN Call("stat", PathArgs(file_), -1, fs_path.err, <<>>)
  ELSE IF R_SUCCEEDED(rcOpen)
  THEN Call("stat", PathArgs(file_),
            IF R_SUCCEEDED(rcSize) THEN 0 ELSE -1,
            IF R_SUCCEEDED(rcSize) THEN 0 ELSE sdmc_translate_error(rcSize),
            <<PathCall("FSUSER_OpenFile", rcOpen, fs_path.data),
              SizeCall(rcSize, 0), RemoteCall("FSFILE_Close", 0)>>)
  ELSE IF R_SUCCEEDED(rcDir)
  THEN Call("stat", PathArgs(file_), 0, 0,
            <<PathCall("FSUSER_OpenFile", rcOpen, fs_path.data),
              PathCall("FSUSER_OpenDirectory", rcDir, fs_path.data),
              RemoteCall("FSDIR_Close", 0)>>)
  ELSE Call("stat", PathArgs(file_), -1, sdmc_translate_error(rcDir),
            <<PathCall("FSUSER_OpenFile", rcOpen, fs_path.data),
              PathCall("FSUSER_OpenDirectory", rcDir, fs_path.data)>>)

sdmc_stat(file_, rcOpen, rcSize, rcDir) ==
  /\ pc = "idle"
  /\ Record(stat_encoded(file_, sdmc_utf16path(cwd, file_), rcOpen, rcSize, rcDir))
  /\ UNCHANGED <<lifeVars, cwd, fileVars, dirVars, pc, ws>>

\* An operation that encodes its path, issues one remote call on it and
\* returns 0 or -1 with the translated code: sdmc_unlink and sdmc_rmdir.
one_call_encoded(op, name, fs_path, fn, rc) ==
  IF fs_path.err # 0 THEN Call(op, PathArgs(name), -1, fs_path.err, <<>>)
  ELSE IF R_SUCCEEDED(rc)
  THEN Call(op, PathArgs(name), 0, 0, <<PathCall(fn, rc, fs_path.data)>>)
  ELSE Call(op, PathArgs(name), -1, sdmc_translate_error(rc),
            <<PathCall(fn, rc, fs_path.data)>>)

sdmc_unlink(name, rc) ==
  /\ pc = "idle"
  /\ Record(one_call_encoded("unlink", name, sdmc_utf16path(cwd, name),
                             "FSUSER_DeleteFile", rc))
  /\ UNCHANGED <<lifeVars, cwd, fileVars, dirVars, pc, ws>>

sdmc_rmdir(name, rc) ==
  /\ pc = "idle"
  /\ Record(one_call_encoded("rmdir", name, sdmc_utf16path(cwd, name),
                             "FSUSER_DeleteDirectory", rc))
  /\ UNCHANGED <<lifeVars, cwd, fileVars, dirVars, pc, ws>>

sdmc_chdir(name, rc) ==
  /\ pc = "idle"
  /\ \E cd \in {chdir_result(name, rc)} :
       /\ Record(cd.call)
       /\ cwd' = cd.cwd
  /\ UNCHANGED <<lifeVars, fileVars, dirVars, pc, ws>>

RenameArgs(oldName, newName) == [old |-> oldName, new |-> newName, cwd |-> cwd]
RenameCall(fn, rc, old, new) == [fn |-> fn, rc |-> rc, path |-> old, to |-> new]

\* The mutant of rename_old_path: the old path is read from __utf16path after
\* the new name was encoded into it.
rename_old_overwritten(old_data, new_data) == new_data

\* Lines 852-853: the encoding of the old name is copied to __utf16path_old
\* before the new name is encoded, and fs_path_old.data points to the copy.
rename_old_path(old_data, new_data) == old_data

\* Lines 848-868, fs_old and fs_new being the outcomes of sdmc_utf16path;
\* rcFile, rcDir: the answers of FSUSER_RenameFile and FSUSER_RenameDirectory.
rename_encoded(oldName, newName, fs_old, fs_new, rcFile, rcDir) ==
  IF fs_old.err # 0 THEN Call("rename", RenameArgs(oldName, newName), -1, fs_old.err, <<>>)
  ELSE IF fs_new.err # 0
  THEN Call("rename", RenameArgs(oldName, newName), -1, fs_new.err, <<>>)
  ELSE IF R_SUCCEEDED(rcFile)
  THEN Call("rename", RenameArgs(oldName, newName), 0, 0,
            <<RenameCall("FSUSER_RenameFile", rcFile,
                         rename_old_path(fs_old.data, fs_new.data), fs_new.data)>>)
  ELSE IF R_SUCCEEDED(rcDir)
  THEN Call("rename", RenameArgs(oldName, newName), 0, 0,
            <<RenameCall("FSUSER_RenameFile", rcFile,
                         rename_old_path(fs_old.data, fs_new.data), fs_new.data),
              RenameCall("FSUSER_RenameDirectory", rcDir,
                         rename_old_path(fs_old.data, fs_new.data), fs_new.data)>>)
  ELSE Call("rename", RenameArgs(oldName, newName), -1, sdmc_translate_error(rcDir),
            <<RenameCall("FSUSER_RenameFile", rcFile,
                         rename_old_path(fs_old.data, fs_new.data), fs_new.data),
              RenameCall("FSUSER_RenameDirectory", rcDir,
                         rename_old_path(fs_old.data, fs_new.data), fs_new.data)>>)

sdmc_rename(oldName, newName, rcFile, rcDir) ==
  /\ pc = "idle"
  /\ Record(rename_encoded(oldName, newName, sdmc_utf16path(cwd, oldName),
                           sdmc_utf16path(cwd, newName), rcFile, rcDir))
  /\ UNCHANGED <<lifeVars, cwd, fileVars, dirVars, pc, ws>>

\* Lines 889-904, fs_path being the outcome of sdmc_utf16path.
mkdir_encoded(path, fs_path, rc) ==
  IF fs_path.err # 0 THEN Call("mkdir", PathArgs(path), -1, fs_path.err, <<>>)
  ELSE IF rc = RC_ALREADY_EXISTS
  THEN Call("mkdir", PathArgs(path), -1, EEXIST,
            <<PathCall("FSUSER_CreateDirectory", rc, fs_path.data)>>)
  ELSE IF R_SUCCEEDED(rc)
  THEN Call("mkdir", PathArgs(path), 0, 0,
            <<PathCall("FSUSER_CreateDirectory", rc, fs_path.data)>>)
  ELSE Call("mkdir", PathArgs(path), -1, sdmc_translate_error(rc),
            <<PathCall("FSUSER_CreateDirectory", rc, fs_path.data)>>)

sdmc_mkdir(path, rc) ==
  /\ pc = "idle"
  /\ Record(mkdir_encoded(path, sdmc_utf16path(cwd, path), rc))
  /\ UNCHANGED <<lifeVars, cwd, fileVars, dirVars, pc, ws>>

\* rc: the answer of FSUSER_GetSdmcArchiveResource; rcW, writable: the answer
\* of FSUSER_IsSdmcWritable.  out: ST_RDONLY is set in f_flag.
sdmc_statvfs(path, rc, rcW, writable) ==
  /\ pc = "idle"
  /\ IF R_SUCCEEDED(rc)
     THEN Record(CallOut("statvfs", PathArgs(path), 0, 0,
                         <<RemoteCall("FSUSER_GetSdmcArchiveResource", rc),
                           RemoteCall("FSUSER_IsSdmcWritable", rcW)>>,
                         R_FAILED(rcW) \/ ~writable))
     ELSE Record(Call("statvfs", PathArgs(path), -1, sdmc_translate_error(rc),
                      <<RemoteCall("FSUSER_GetSdmcArchiveResource", rc)>>))
  /\ UNCHANGED <<lifeVars, cwd, fileVars, dirVars, pc, ws>>

\* The timestamps FSUSER_ControlArchive answers with, in milliseconds.
Timestamps == {0, 1999, 2000}

\* FSUSER_ControlArchive with ARCHIVE_ACTION_GET_TIMESTAMP: the value it left
\* in *mtime.
StampCall(rc, data, stamp) ==
  [fn |-> "FSUSER_ControlArchive", rc |-> rc, path |-> data, stamp |-> stamp]

\* Lines 1255-1274, fs_path being the outcome of sdmc_utf16path; rc, stamp:
\* the answer of FSUSER_ControlArchive.  ret is the Result returned and out
\* the value left in *mtime.
getmtime_encoded(name, fs_path, rc, stamp) ==
  IF fs_path.err # 0 THEN Call("getmtime", PathArgs(name), -1, fs_path.err, <<>>)
  ELSE CallOut("getmtime", PathArgs(name), rc, 0,
               <<StampCall(rc, fs_path.data, stamp)>>,
               IF rc = 0 THEN (stamp \div 1000) + 946684800 ELSE stamp)

sdmc_getmtime(name, rc, stamp) ==
  /\ pc = "idle"
  /\ Record(getmtime_encoded(name, sdmc_utf16path(cwd, name), rc, stamp))
  /\ UNCHANGED <<lifeVars, cwd, fileVars, dirVars, pc, ws>>

\* The flags sdmc_open is tried with in SpecPath.
PathFlags ==
  [acc |-> O_RDWR, append |-> FALSE, sync |-> FALSE, creat |-> FALSE,
   excl |-> FALSE, trunc |-> FALSE]

\* Whether a path gets through sdmc_utf16path: the FS service answers when
\* it does.
Encodes(path) == sdmc_utf16path(cwd, path).err = 0

PathNext ==
  \/ \E path \in PathSamples :
       \E rcOpen \in AnswersIf(Encodes(path)) :
         sdmc_open(path, PathFlags, 0, rcOpen, 0, 0)
  \/ \E path \in PathSamples :
       \E rcOpen \in AnswersIf(Encodes(path)) :
         \E rcSize \in AnswersIf(Encodes(path) /\ R_SUCCEEDED(rcOpen)),
            rcDir \in AnswersIf(R_FAILED(rcOpen)) :
           sdmc_stat(path, rcOpen, rcSize, rcDir)
  \/ \E path \in PathSamples :
       \E rc \in AnswersIf(Encodes(path)) : sdmc_unlink(path, rc)
  \/ \E path \in PathSamples :
       \E rc \in AnswersIf(Encodes(path)) : sdmc_chdir(path, rc)
  \/ \E old \in RenameSamples, new \in RenameSamples :
       \E rcFile \in AnswersIf(Encodes(old) /\ Encodes(new)) :
         \E rcDir \in AnswersIf(R_FAILED(rcFile)) :
           sdmc_rename(old, new, rcFile, rcDir)
  \/ \E path \in PathSamples :
       \E rc \in AnswersIf(Encodes(path)) : sdmc_mkdir(path, rc)
  \/ \E path \in PathSamples :
       \E rc \in AnswersIf(Encodes(path)) : sdmc_diropen(path, rc, <<>>)
  \/ \E path \in PathSamples :
       \E rc \in AnswersIf(Encodes(path)) : sdmc_rmdir(path, rc)
  \/ \E path \in PathSamples, rc \in Results :
       \E rcW \in AnswersIf(R_SUCCEEDED(rc)) :
         \E writable \in (IF R_SUCCEEDED(rc) /\ R_SUCCEEDED(rcW) THEN BOOLEAN ELSE {FALSE}) :
           sdmc_statvfs(path, rc, rcW, writable)
  \/ \E path \in PathSamples :
       \E rc \in AnswersIf(Encodes(path)) :
         \E stamp \in (IF R_SUCCEEDED(rc) THEN Timestamps ELSE {0}) :
           sdmc_getmtime(path, rc, stamp)

SpecPath == Init /\ [][PathNext]_vars

(***************************************************************************)
(* sdmc_rename on its own, with __cwd moved by sdmc_chdir.                 *)
(***************************************************************************)
\* Names that encode to different paths, one that is not UTF-8 and one that
\* is too long.
RenameNames ==
  { <<LETTER>>, <<SLASH>>, <<LEAD2, CONT>>, <<CONT>>, Letters(PATH_MAX) }

RenameNext ==
  \/ \E old \in RenameNames, new \in RenameNames :
       \E encodes \in {Encodes(old) /\ Encodes(new)} :
         \E rcFile \in AnswersIf(encodes) :
           \E rcDir \in AnswersIf(encodes /\ R_FAILED(rcFile)) :
             sdmc_rename(old, new, rcFile, rcDir)
  \/ \E path \in RenameNames :
       \E rc \in AnswersIf(Encodes(path)) : sdmc_chdir(path, rc)

SpecRename == Init /\ [][RenameNext]_vars

(***************************************************************************)
(* sdmc_getmtime on its own, with __cwd moved by sdmc_chdir.               *)
(***************************************************************************)
\* The answers of FSUSER_ControlArchive: those of Results and a code above
\* zero, which R_SUCCEEDED takes for a success.
MtimeResults == Results \cup {RC_EXISTS_INFO}
\* Milliseconds since 2000-01-01: around one and two seconds, and a day.
MtimeStamps == {0, 999, 1000, 1001, 1999, 2000, 86400000}

MtimeNext ==
  \/ \E name \in PathSamples :
       \E rc \in (IF Encodes(name) THEN MtimeResults ELSE {0}) :
         \E stamp \in (IF Encodes(name) THEN MtimeStamps ELSE {0}) :
           sdmc_getmtime(name, rc, stamp)
  \/ \E path \in PathSamples :
       \E rc \in AnswersIf(Encodes(path)) : sdmc_chdir(path, rc)

SpecMtime == Init /\ [][MtimeNext]_vars

(***************************************************************************)
(* sdmc_translate_error on its own.                                        *)
(***************************************************************************)
INT32_MIN == -2147483647 - 1
INT32_MAX == -(INT32_MIN + 1)

\* The codes tried: the ones of error_table and the one sdmc_mkdir tests
\* for, those up to ErrSpread away from them and from zero, and the ends of
\* the 32 bits.
TableCodes == {error_table[i].fs_error : i \in 1..num_errors}
ErrorCodes ==
  {c + k : c \in TableCodes \cup {0, RC_ALREADY_EXISTS}, k \in (-ErrSpread)..ErrSpread}
    \cup {INT32_MIN + k : k \in 0..ErrSpread}
    \cup {INT32_MAX - k : k \in 0..ErrSpread}

translate_error(error) ==
  /\ pc = "idle"
  /\ Record(Call("translate_error", [error |-> error], sdmc_translate_error(error), 0, <<>>))
  /\ UNCHANGED <<lifeVars, cwd, fileVars, dirVars, pc, ws>>

ErrNext == \E error \in ErrorCodes : translate_error(error)

SpecErr == Init /\ [][ErrNext]_vars

(***************************************************************************)
(* sdmc_fixpath on its own, with __cwd moved by sdmc_chdir.                *)
(***************************************************************************)
Bytes == {SLASH, COLON, LETTER, LEAD2, CONT}
\* Every path of up to MaxPathLen of these bytes.
Paths == SeqsUpTo(Bytes, MaxPathLen)

\* The call record of sdmc_fixpath: ret is 0 for the pointer to __fixedpath
\* and -1 for NULL, out the string left in __fixedpath, top the highest index
\* of __fixedpath written to.
fixpath_call(path, fix) ==
  CallOut("fixpath", PathArgs(path), IF fix.err = 0 THEN 0 ELSE -1, fix.err, <<>>,
          fix.fixed) @@ [top |-> fix.top]

fixpath(path) ==
  /\ pc = "idle"
  /\ Record(fixpath_call(path, sdmc_fixpath(cwd, path)))
  /\ UNCHANGED <<lifeVars, cwd, fileVars, dirVars, pc, ws>>

FixNext ==
  \/ \E path \in Paths : fixpath(path)
  \/ \E path \in PathSamples :
       \E rc \in AnswersIf(Encodes(path)) : sdmc_chdir(path, rc)

SpecFix == Init /\ [][FixNext]_vars

(***************************************************************************)
(* Claims about sdmcInit and sdmcExit (SpecLife).                          *)
(***************************************************************************)
IsOp(call, op) == call.op = op
IssuedRemote(call) == call.calls # <<>>

\* C1: when sdmcInit is called twice in a row, starting not initialised, the
\* second call returns success, issues no remote call and registers nothing,
\* the two calls together issue exactly one FSUSER_OpenArchive, and the
\* first call returns success when that archive-open succeeded.
C1_InitTwiceOneOpen ==
  (IsOp(prev, "sdmcInit") /\ IsOp(last, "sdmcInit") /\ IssuedRemote(prev)) =>
    /\ last.ret = 0
    /\ last.calls = <<>>
    /\ Cardinality(PrevCalls("FSUSER_OpenArchive")) + Cardinality(Calls("FSUSER_OpenArchive")) = 1
    /\ R_SUCCEEDED(prev.calls[1].rc) => prev.ret = 0

C1_Witness ==
  /\ IsOp(prev, "sdmcInit") /\ IsOp(last, "sdmcInit")
  /\ Cardinality(PrevCalls("FSUSER_OpenArchive")) = 1
  /\ Cardinality(PrevCalls("AddDevice")) = 1
  /\ prev.ret = 0 /\ last.ret = 0 /\ last.calls = <<>>

\* C2: a call of sdmcExit made while the shim is not initialised (never
\* initialised, or exited with success since) returns success, issues no
\* FSUSER_CloseArchive and no RemoveDevice, and changes nothing.
C2_ExitWhenNotInitialised ==
  [][ (~sdmcInitialised /\ \E rc \in Results : sdmcExit(rc)) =>
        /\ last'.ret = 0
        /\ last'.calls = <<>>
        /\ UNCHANGED lifeVars ]_vars

C2_Witness ==
  /\ IsOp(prev, "sdmcExit") /\ prev.ret = 0 /\ IssuedRemote(prev)
  /\ IsOp(last, "sdmcExit") /\ last.ret = 0 /\ ~IssuedRemote(last)
  /\ ~sdmcInitialised

(***************************************************************************)
(* Claims about the open file (SpecFile).                                  *)
(***************************************************************************)
IsWrite(call) == IsOp(call, "write") \/ IsOp(call, "write_safe")
WriteCalls == Calls("FSFILE_Write")

\* C4: a write or safe write on a handle opened O_RDONLY, whatever its other
\* flags, returns -1 with EBADF, issues no remote call and leaves the offset
\* of the handle where it was.
C4_WriteOnReadOnly ==
  (IsWrite(last) /\ file.open /\ file.acc = O_RDONLY) =>
    /\ last.ret = -1
    /\ last.err = EBADF
    /\ last.calls = <<>>
    /\ file.offset = last.args.offset
    /\ pc = "idle"

C4_Witness ==
  /\ IsOp(last, "write_safe") /\ file.open /\ file.acc = O_RDONLY /\ file.sync
  /\ last.args.len > TmpBufferSize /\ last.args.offset > 0
  /\ last.ret = -1 /\ last.err = EBADF /\ last.calls = <<>>

\* The errno the path of an open leaves when it does not canonicalise or
\* encode (0: it does both), computed from sdmc_fixpath and utf8_to_utf16.
PathErrno(base, path) ==
  IF sdmc_fixpath(base, path).err # 0 THEN sdmc_fixpath(base, path).err
  ELSE utf16path_encode(sdmc_fixpath(base, path),
                        utf8_to_utf16(sdmc_fixpath(base, path).fixed, 1)).err

IsReadOnlyAppend(call) ==
  IsOp(call, "open") /\ call.args.flags.acc = O_RDONLY /\ call.args.flags.append

\* C5 as stated: an open with O_RDONLY and O_APPEND fails with EINVAL and
\* without remote call for every path.
C5_EinvalForEveryPath ==
  IsReadOnlyAppend(last) =>
    /\ last.ret = -1
    /\ last.err = EINVAL
    /\ last.calls = <<>>

\* C5: an open with O_RDONLY and O_APPEND fails without any remote call for
\* every path and every other flag; its errno is EINVAL when the path
\* canonicalises and encodes, and the errno of the path when it does not.
C5_ReadOnlyAppend ==
  IsReadOnlyAppend(last) =>
    /\ last.ret = -1
    /\ last.calls = <<>>
    /\ ~file.open
    /\ last.err = (IF PathErrno(cwd, last.args.path) # 0
                   THEN PathErrno(cwd, last.args.path) ELSE EINVAL)

C5_Witness ==
  /\ IsReadOnlyAppend(last)
  /\ last.args.flags.creat /\ last.args.flags.excl /\ last.args.flags.trunc
  /\ PathErrno(cwd, last.args.path) = 0
  /\ last.ret = -1 /\ last.err = EINVAL /\ last.calls = <<>>

\* The base of a seek: 0, the stored offset or the size of the file.
SeekBase(call) ==
  IF call.args.whence = "SEEK_SET" THEN 0
  ELSE IF call.args.whence = "SEEK_CUR" THEN call.args.offset
  ELSE fsize

SeekBaseKnown(call) ==
  /\ call.args.whence \in {"SEEK_SET", "SEEK_CUR", "SEEK_END"}
  /\ \A i \in 1..Len(call.calls) : R_SUCCEEDED(call.calls[i].rc)

\* C6: a seek whose base (0 for SEEK_SET, the stored offset for SEEK_CUR, the
\* size FSFILE_GetSize answered for SEEK_END) plus pos is negative returns -1
\* with EINVAL, so does seek(-1, SEEK_SET), and every seek that fails leaves
\* the stored offset where it was.
C6_SeekBeforeStart ==
  IsOp(last, "seek") =>
    /\ (SeekBaseKnown(last) /\ SeekBase(last) + last.args.pos < 0) =>
         (last.ret = -1 /\ last.err = EINVAL)
    /\ (last.args.whence = "SEEK_SET" /\ last.args.pos = -1) =>
         (last.ret = -1 /\ last.err = EINVAL)
    /\ last.err # 0 => (last.ret = -1 /\ file.offset = last.args.offset)
    /\ last.err = 0 => file.offset = SeekBase(last) + last.args.pos

C6_Witness ==
  /\ IsOp(last, "seek") /\ last.args.whence = "SEEK_END"
  /\ fsize > 0 /\ fsize + last.args.pos < 0
  /\ Cardinality(Calls("FSFILE_GetSize")) = 1
  /\ last.args.offset > 0 /\ file.offset = last.args.offset
  /\ last.ret = -1 /\ last.err = EINVAL

\* A safe write that has returned.
SafeWriteDone == IsOp(last, "write_safe") /\ pc = "idle"

CeilDiv(n, d) == (n + d - 1) \div d

\* Every remote write of the record succeeded and took the whole chunk.
AllChunksTaken ==
  \A i \in WriteCalls : R_SUCCEEDED(last.calls[i].rc) /\ last.calls[i].bytes = last.calls[i].len

RECURSIVE Accepted(_, _)
Accepted(calls, i) ==
  IF i > Len(calls) THEN 0
  ELSE (IF calls[i].fn = "FSFILE_Write" THEN calls[i].bytes ELSE 0) + Accepted(calls, i + 1)

SumAccepted == Accepted(last.calls, 1)

FailedWrites == {i \in WriteCalls : R_FAILED(last.calls[i].rc)}

\* What a safe write that has returned returns: the bytes taken, or -1 and
\* the translated code of the failing remote write when none was taken.
SafeWriteReturn ==
  /\ SumAccepted > 0 => (last.ret = SumAccepted /\ last.err = 0)
  /\ last.ret = -1 => (SumAccepted = 0 /\ last.err # 0)
  /\ last.ret # -1 => (last.ret = SumAccepted /\ last.err = 0)
  /\ \A i \in FailedWrites :
       /\ i = Len(last.calls)
       /\ SumAccepted = 0 =>
            (last.ret = -1 /\ last.err = sdmc_translate_error(last.calls[i].rc))

\* The offset of the first remote write of a safe write: the size
\* FSFILE_GetSize answered on an O_APPEND handle, else the stored offset.
SafeWriteStart ==
  IF Calls("FSFILE_GetSize") # {} /\ R_SUCCEEDED(last.calls[1].rc)
  THEN last.calls[1].size
  ELSE last.args.offset

\* C9 as stated: the return value as in C9 below, and the offset of the
\* handle advanced by exactly the bytes taken.
C9_OffsetAdvancedBySum ==
  SafeWriteDone =>
    /\ SafeWriteReturn
    /\ file.offset = last.args.offset + SumAccepted

\* C9: a safe write returns the sum of the bytes the remote writes took; when
\* a remote write fails it returns that sum with no errno if the sum is not
\* zero, and -1 with the translated code if it is; the offset of the handle
\* ends at the offset of the first remote write (the stored offset, or the
\* file size on an O_APPEND handle) plus the bytes taken.
C9_SafeWriteReturn ==
  SafeWriteDone =>
    /\ SafeWriteReturn
    /\ file.offset = SafeWriteStart + SumAccepted

C9_Witness ==
  /\ SafeWriteDone /\ FailedWrites # {} /\ Cardinality(WriteCalls) = 2
  /\ SumAccepted > 0 /\ last.ret = SumAccepted /\ last.err = 0
  /\ last.args.offset > 0
  /\ file.offset = last.args.offset + SumAccepted

(***************************************************************************)
(* Claims about the open directory (SpecDir).                              *)
(***************************************************************************)
\* The name dirnext hands out for an entry, when it can.
Utf8Name(entry) == utf16_to_utf8(entry, 1)
Convertible(entry) == Utf8Name(entry) # <<-1>> /\ Len(Utf8Name(entry)) < NAME_MAX
AllConvertible == \A i \in 1..Len(listing) : Convertible(listing[i])

ReadCalls == Calls("FSDIR_Read")
ReadFailed == \E i \in ReadCalls : R_FAILED(last.calls[i].rc)

\* C7: while a directory of N entries with convertible names is open, the
\* names dirnext has returned are the first of the N in the order of the FS
\* service, each once; a dirnext whose FSDIR_Read (if any) did not fail
\* returns the next entry while one is left, asking for at most max_entries
\* entries, and once all N are returned (at once when N = 0) it returns -1
\* with ENOENT and leaves index = -1 and size = 0, the handle still open.
C7_DirnextEnumerates ==
  (dir.open /\ AllConvertible) =>
    /\ Len(returned) <= Len(listing)
    /\ \A i \in 1..Len(returned) : returned[i] = Utf8Name(listing[i])
    /\ dir.size <= max_entries
    /\ (IsOp(last, "dirnext") /\ ~ReadFailed) =>
         IF last.args.count < Len(listing)
         THEN /\ last.ret = 0
              /\ last.err = 0
              /\ last.out = Utf8Name(listing[last.args.count + 1])
              /\ Len(returned) = last.args.count + 1
         ELSE /\ last.ret = -1
              /\ last.err = ENOENT
              /\ Cardinality(ReadCalls) = 1
              /\ Len(returned) = Len(listing)
              /\ dir.index = -1
              /\ dir.size = 0

C7_Witness ==
  /\ dir.open /\ AllConvertible /\ Len(listing) > max_entries
  /\ IsOp(last, "dirnext") /\ ~ReadFailed
  /\ last.args.count = Len(listing)
  /\ last.ret = -1 /\ last.err = ENOENT
  /\ dir.index = -1 /\ dir.size = 0
  /\ Len(returned) = Len(listing)

(***************************************************************************)
(* Claims about the operations on a path (SpecPath).                       *)
(***************************************************************************)
\* The operations that canonicalise and encode one path, and all that take
\* one.
EncodingOps == {"open", "stat", "unlink", "chdir", "mkdir", "diropen", "rmdir", "getmtime"}
OnePathOps == EncodingOps \cup {"statvfs"}

\* The errno the paths of a rename leave: the one of the old name, else the
\* one of the new name.
RenameErrno(call) ==
  IF PathErrno(call.args.cwd, call.args.old) # 0
  THEN PathErrno(call.args.cwd, call.args.old)
  ELSE PathErrno(call.args.cwd, call.args.new)

\* The operation failed on its path: -1, the errno of the path, no remote
\* call.
FailedOnPath(call, errno) ==
  /\ call.ret = -1
  /\ call.err = errno
  /\ call.calls = <<>>

RenameFailsOnPath ==
  (IsOp(last, "rename") /\ RenameErrno(last) # 0) => FailedOnPath(last, RenameErrno(last))

\* C3 as stated: each of the ten operations, statvfs among them, fails with
\* the errno of the path and without remote call when its path does not
\* canonicalise or encode.
C3_AllTenOperations ==
  /\ (last.op \in OnePathOps /\ PathErrno(last.args.cwd, last.args.path) # 0) =>
       FailedOnPath(last, PathErrno(last.args.cwd, last.args.path))
  /\ RenameFailsOnPath

\* C3: open, stat, unlink, chdir, mkdir, diropen, rmdir and getmtime, and
\* rename for either of its two paths, return -1 with the errno of the path
\* and issue no remote call when the path does not canonicalise or encode;
\* chdir then leaves __cwd as it was; statvfs does not look at its path and
\* issues FSUSER_GetSdmcArchiveResource whatever the path is.
C3_PathFailsBeforeRemote ==
  /\ (last.op \in EncodingOps /\ PathErrno(last.args.cwd, last.args.path) # 0) =>
       /\ FailedOnPath(last, PathErrno(last.args.cwd, last.args.path))
       /\ cwd = last.args.cwd
  /\ RenameFailsOnPath
  /\ IsOp(last, "statvfs") => Calls("FSUSER_GetSdmcArchiveResource") = {1}

C3_Witness ==
  /\ IsOp(last, "rename")
  /\ PathErrno(last.args.cwd, last.args.old) = 0
  /\ PathErrno(last.args.cwd, last.args.new) = ENAMETOOLONG
  /\ FailedOnPath(last, ENAMETOOLONG)

(***************************************************************************)
(* Claims about the error translator (SpecErr).                            *)
(***************************************************************************)
\* The entries of error_table that list a code, looked for one by one.
EntriesOf(code) == {i \in 1..num_errors : error_table[i].fs_error = code}

\* As unsigned 32-bit numbers the codes of the table go strictly up.
TableSorted ==
  \A i \in 1..num_errors : \A j \in 1..num_errors :
    i < j => (IF (error_table[i].fs_error < 0) = (error_table[j].fs_error < 0)
              THEN error_table[i].fs_error < error_table[j].fs_error
              ELSE error_table[j].fs_error < 0)

\* C10: sdmc_translate_error returns the errno listed for a code that is in
\* error_table (EEXIST for 0x082044BE, ENAMETOOLONG for 0xE0E046BF) and the
\* code itself for any other; the table is sorted ascending as unsigned, so
\* that the binary search finds every entry.
C10_TranslateIsLookup ==
  /\ TableSorted
  /\ IsOp(last, "translate_error") =>
       /\ \A i \in EntriesOf(last.args.error) : last.ret = error_table[i].error
       /\ EntriesOf(last.args.error) = {} => last.ret = last.args.error
       /\ last.args.error = 136332478 => last.ret = EEXIST
       /\ last.args.error = -522172737 => last.ret = ENAMETOOLONG

C10_Witness ==
  /\ IsOp(last, "translate_error")
  /\ last.args.error = RC_TOO_LONG
  /\ last.ret = ENAMETOOLONG

(***************************************************************************)
(* Claims about sdmc_fixpath (SpecFix).                                    *)
(***************************************************************************)
ColonsAt(p) == {i \in 1..Len(p) : p[i] = COLON}
SecondColon(p) == CHOOSE i \in ColonsAt(p) : Cardinality({j \in ColonsAt(p) : j < i}) = 1
\* The bytes in front of the second ':' are valid UTF-8.
ValidToSecondColon(p) == utf8_to_utf16(SubSeq(p, 1, SecondColon(p) - 1), 1) # <<-1>>

HasTwoColons(call) == IsOp(call, "fixpath") /\ Cardinality(ColonsAt(call.args.path)) >= 2

\* C11 as stated: sdmc_fixpath on a path with two or more ':' returns NULL
\* with EINVAL.
C11_AlwaysEinval ==
  HasTwoColons(last) => (last.ret = -1 /\ last.err = EINVAL)

\* C11: sdmc_fixpath on a path with two or more ':' returns NULL; the errno
\* is EINVAL when the bytes in front of the second ':' are valid UTF-8 and
\* EILSEQ when they are not.
C11_TwoColonsFail ==
  HasTwoColons(last) =>
    /\ last.ret = -1
    /\ last.err = (IF ValidToSecondColon(last.args.path) THEN EINVAL ELSE EILSEQ)

C11_Witness ==
  /\ HasTwoColons(last)
  /\ last.args.path = <<LETTER, COLON, COLON>>
  /\ last.ret = -1 /\ last.err = EINVAL

\* sdmc_fixpath returned its buffer: the path is a valid one.
Canonicalised(call) == IsOp(call, "fixpath") /\ call.ret = 0

\* C12: for every path sdmc_fixpath accepts, absolute or relative, with or
\* without a device prefix, under every __cwd sdmc_chdir can leave, the
\* result starts with '/', has at most PATH_MAX bytes, and is accepted and
\* left unchanged when it is canonicalised again.
C12_CanonicalForm ==
  Canonicalised(last) =>
    /\ Len(last.out) >= 1
    /\ last.out[1] = SLASH
    /\ Len(last.out) <= PATH_MAX
    /\ sdmc_fixpath(last.args.cwd, last.out).err = 0
    /\ sdmc_fixpath(last.args.cwd, last.out).fixed = last.out

C12_Witness ==
  /\ Canonicalised(last)
  /\ last.args.cwd # <<SLASH>>
  /\ last.args.path = <<LETTER, COLON, LETTER>>
  /\ Len(last.out) = PATH_MAX
  /\ last.out = last.args.cwd \o <<LETTER>>

(***************************************************************************)
(* Claims about sdmc_rename and sdmc_stat (SpecPath).                      *)
(***************************************************************************)
\* The operation issued two remote calls, fn1 then fn2, and both failed.
BothFailed(call, fn1, fn2) ==
  /\ Len(call.calls) = 2
  /\ call.calls[1].fn = fn1 /\ R_FAILED(call.calls[1].rc)
  /\ call.calls[2].fn = fn2 /\ R_FAILED(call.calls[2].rc)

\* C13: sdmc_rename calls FSUSER_RenameFile first and FSUSER_RenameDirectory
\* only when that failed; when both fail it returns -1 and the errno is the
\* translation of the code of FSUSER_RenameFile.
C13_FileRenameCodeSurfaced ==
  IsOp(last, "rename") =>
    /\ last.calls # <<>> => last.calls[1].fn = "FSUSER_RenameFile"
    /\ Len(last.calls) > 1 =>
         (R_FAILED(last.calls[1].rc) /\ last.calls[2].fn = "FSUSER_RenameDirectory")
    /\ BothFailed(last, "FSUSER_RenameFile", "FSUSER_RenameDirectory") =>
         (last.ret = -1 /\ last.err = sdmc_translate_error(last.calls[1].rc))

\* C14: sdmc_stat calls FSUSER_OpenFile first and FSUSER_OpenDirectory only
\* when that failed; when both fail it returns -1 and the errno is the
\* translation of the code of FSUSER_OpenFile.
C14_FileOpenCodeSurfaced ==
  IsOp(last, "stat") =>
    /\ last.calls # <<>> => last.calls[1].fn = "FSUSER_OpenFile"
    /\ Calls("FSUSER_OpenDirectory") # {} =>
         (R_FAILED(last.calls[1].rc) /\ Calls("FSUSER_OpenDirectory") = {2})
    /\ BothFailed(last, "FSUSER_OpenFile", "FSUSER_OpenDirectory") =>
         (last.ret = -1 /\ last.err = sdmc_translate_error(last.calls[1].rc))

(***************************************************************************)
(* Claims about the code sdmc_mkdir tests for (SpecErr).                   *)
(***************************************************************************)
\* C15: sdmc_translate_error maps the code sdmc_mkdir special-cases,
\* 0xC82044BE, to EEXIST, so that sdmc_mkdir's errno for that code is the
\* same with and without the special case.
C15_TableMapsAlreadyExists ==
  (IsOp(last, "translate_error") /\ last.args.error = RC_ALREADY_EXISTS) =>
    last.ret = EEXIST

(***************************************************************************)
(* The operations that open a handle at the FS service: sdmc_open,         *)
(* sdmc_stat, sdmc_chdir and sdmc_diropen.                                 *)
(***************************************************************************)
HandleFlags ==
  {f \in OpenFlags : ~f.append /\ ~f.sync /\ f.acc \in {O_RDONLY, O_RDWR}}

HandleNext ==
  \/ \E path \in OpenPaths, flags \in HandleFlags :
       \E encodes \in {sdmc_utf16path(cwd, path).err = 0 /\ open_mode_errno(flags) = 0} :
         \E rcCreate \in AnswersIf(encodes /\ flags.creat /\ flags.excl) :
           \E rcOpen \in AnswersIf(encodes /\ R_SUCCEEDED(rcCreate)) :
             \E rcSize \in AnswersIf(encodes /\ R_SUCCEEDED(rcCreate) /\ R_SUCCEEDED(rcOpen)
                                       /\ flags.acc # O_RDONLY /\ flags.trunc) :
               sdmc_open(path, flags, rcCreate, rcOpen, rcSize, 0)
  \/ \E path \in OpenPaths :
       \E rcOpen \in AnswersIf(Encodes(path)) :
         \E rcSize \in AnswersIf(Encodes(path) /\ R_SUCCEEDED(rcOpen)),
            rcDir \in AnswersIf(R_FAILED(rcOpen)) :
           sdmc_stat(path, rcOpen, rcSize, rcDir)
  \/ \E path \in OpenPaths :
       \E rc \in AnswersIf(Encodes(path)) : sdmc_chdir(path, rc)
  \/ \E path \in OpenPaths :
       \E rc \in AnswersIf(Encodes(path)) : sdmc_diropen(path, rc, <<>>)

SpecHandle == Init /\ [][HandleNext]_vars

(***************************************************************************)
(* sdmcInit and sdmcExit together with the handlers of the device.         *)
(***************************************************************************)
ArchiveNext ==
  \/ \E rcOpen \in Results, dev \in {-1, 0} :
       sdmcInit(FALSE, <<SLASH, LETTER>>, rcOpen, dev, 0)
  \/ \E rcClose \in Results : sdmcExit(rcClose)
  \/ \E path \in {p \in OpenPaths : ~file.open} :
       \E rcOpen \in AnswersIf(Encodes(path)) :
         sdmc_open(path, PathFlags, 0, rcOpen, 0, 0)
  \/ \E rc \in Results : sdmc_close(rc)
  \/ \E rc \in Results : sdmc_read(1, rc, 0)
  \/ \E path \in OpenPaths :
       \E rcOpen \in AnswersIf(Encodes(path)) :
         \E rcSize \in AnswersIf(Encodes(path) /\ R_SUCCEEDED(rcOpen)),
            rcDir \in AnswersIf(R_FAILED(rcOpen)) :
           sdmc_stat(path, rcOpen, rcSize, rcDir)
  \/ \E path \in OpenPaths :
       \E rc \in AnswersIf(Encodes(path)) : sdmc_unlink(path, rc)
  \/ \E path \in {p \in OpenPaths : ~dir.open} :
       \E rc \in AnswersIf(Encodes(path)) : sdmc_diropen(path, rc, <<>>)
  \/ \E rc \in Results : sdmc_dirclose(rc)

SpecArchive == Init /\ [][ArchiveNext]_vars

(***************************************************************************)
(* sdmc_unlink run by the threads of Threads, a step of a thread being one *)
(* of sdmc_fixpath, the rest of sdmc_utf16path, and FSUSER_DeleteFile with *)
(* the return.  __cwd is left alone.                                       *)
(***************************************************************************)
\* The mutant of tls: __fixedpath and __utf16path are plain statics.
tls_shared(t) == 1

\* Lines 99-100: __thread gives every thread its own __fixedpath and
\* __utf16path.
tls(t) == t

ThreadPaths ==
  { <<LETTER>>, <<SLASH>>, <<LEAD2, CONT>>, <<CONT>>, <<SLASH, LETTER, LETTER>> }

ThreadReturn(name, ret, err, calls, beside) ==
  [pc |-> "returned", path |-> name, ret |-> ret, err |-> err, calls |-> calls,
   beside |-> beside]

\* Lines 788 and 175: sdmc_unlink enters sdmc_utf16path, which runs
\* sdmc_fixpath on the thread's __fixedpath.
unlink_fixed(t, name, fix) ==
  /\ fixedpath' = IF fix.top >= 0 THEN [fixedpath EXCEPT ![tls(t)] = fix.fixed]
                  ELSE fixedpath
  /\ thread' = [thread EXCEPT ![t] =
                  IF fix.err # 0 THEN ThreadReturn(name, -1, fix.err, <<>>, {})
                  ELSE [NoThread EXCEPT !.pc = "fixed", !.path = name]]

unlink_fixpath(t, name) ==
  /\ pc = "idle"
  /\ thread[t].pc \in {"idle", "returned"}
  /\ unlink_fixed(t, name, sdmc_fixpath(cwd, name))
  /\ UNCHANGED <<lifeVars, cwd, fileVars, dirVars, pc, ws, handles, utf16path, last, prev>>

\* Lines 178-196: utf8_to_utf16 from the thread's __fixedpath into its
\* __utf16path, utf16 being what it made.
unlink_encoded(t, utf16, fs_path) ==
  /\ utf16path' = IF utf16 = <<-1>> THEN utf16path
                  ELSE [utf16path EXCEPT ![tls(t)] = Take(utf16, PATH_MAX)]
  /\ thread' = [thread EXCEPT ![t] =
                  IF fs_path.err # 0 THEN ThreadReturn(@.path, -1, fs_path.err, <<>>, {})
                  ELSE [@ EXCEPT !.pc = "encoded"]]

unlink_utf16path(t) ==
  /\ pc = "idle"
  /\ thread[t].pc = "fixed"
  /\ \E utf16 \in {utf8_to_utf16(fixedpath[tls(t)], 1)} :
       unlink_encoded(t, utf16,
                      utf16path_encode([err |-> 0, fixed |-> fixedpath[tls(t)],
                                        top |-> PATH_MAX], utf16))
  /\ UNCHANGED <<lifeVars, cwd, fileVars, dirVars, pc, ws, handles, fixedpath, last, prev>>

\* The paths the other threads are between sdmc_fixpath and their return
\* with.
Beside(t) ==
  {thread[u].path : u \in {v \in Threads \ {t} : thread[v].pc \in {"fixed", "encoded"}}}

\* Lines 792-797: FSUSER_DeleteFile on fs_path, whose data points to the
\* thread's __utf16path; rc is its answer.
unlink_remote(t, rc) ==
  /\ pc = "idle"
  /\ thread[t].pc = "encoded"
  /\ thread' = [thread EXCEPT ![t] =
                  ThreadReturn(@.path, IF R_SUCCEEDED(rc) THEN 0 ELSE -1,
                               IF R_SUCCEEDED(rc) THEN 0 ELSE sdmc_translate_error(rc),
                               <<PathCall("FSUSER_DeleteFile", rc, utf16path[tls(t)])>>,
                               Beside(t))]
  /\ UNCHANGED <<lifeVars, cwd, fileVars, dirVars, pc, ws, handles, fixedpath,
                 utf16path, last, prev>>

ThreadNext ==
  \/ \E t \in Threads, name \in ThreadPaths : unlink_fixpath(t, name)
  \/ \E t \in Threads : unlink_utf16path(t)
  \/ \E t \in Threads, rc \in Results : unlink_remote(t, rc)

SpecThread == Init /\ [][ThreadNext]_vars

(***************************************************************************)
(* Claims about the handles of the FS service (SpecHandle).                *)
(***************************************************************************)
OpensHandle(call) == IsOp(call, "open") \/ IsOp(call, "diropen")
UsesHandle(call) == OpensHandle(call) \/ IsOp(call, "stat") \/ IsOp(call, "chdir")

\* C16: sdmc_open, sdmc_stat, sdmc_chdir and sdmc_diropen leak no handle:
\* each call of sdmc_open and sdmc_diropen that returns success leaves one
\* more handle open at the FS service, and every other call of the four,
\* a failed sdmc_open after a failed FSFILE_SetSize among them, leaves the
\* number of open handles as it was.
C16_NoHandleLeak ==
  [][UsesHandle(last') =>
       handles' = handles + (IF OpensHandle(last') /\ last'.ret = 0 THEN 1 ELSE 0)]_vars

\* A handle is held, and an sdmc_open has failed on FSFILE_SetSize after
\* FSUSER_OpenFile succeeded.
C16_Witness ==
  /\ IsOp(last, "open") /\ last.ret = -1
  /\ handles > 0
  /\ \E i \in Calls("FSUSER_OpenFile") : R_SUCCEEDED(last.calls[i].rc)
  /\ \E i \in Calls("FSFILE_SetSize") : R_FAILED(last.calls[i].rc)

(***************************************************************************)
(* Claims about the stored offset (SpecFile).                              *)
(***************************************************************************)
IsTransfer(call) == IsOp(call, "read") \/ IsOp(call, "write") \/ IsOp(call, "write_safe")
TransferCalls(call) ==
  {i \in 1..Len(call.calls) : call.calls[i].fn \in {"FSFILE_Read", "FSFILE_Write"}}
\* The bytes a read or write returned: none when it failed.
Transferred(call) == IF call.ret >= 0 THEN call.ret ELSE 0

\* C17: on a file opened without O_APPEND, every remote read and write is
\* issued at the stored offset; a read or write that returns a byte count
\* leaves the stored offset that count further, a seek that returns an
\* offset leaves the stored offset equal to it, and a read, write or seek
\* that fails leaves the stored offset as it was.
C17_OffsetBookkeeping ==
  [][(file.open /\ ~file.append /\ file'.open) =>
       /\ (IsTransfer(last') /\ pc = "idle") =>
            /\ last'.args.offset = file.offset
            /\ \A i \in TransferCalls(last') : last'.calls[i].offset = file.offset
       /\ (IsTransfer(last') /\ pc = "write_safe") =>
            /\ Len(last'.calls) = Len(last.calls) + 1
            /\ last'.calls[Len(last'.calls)].offset = file.offset
       /\ (IsTransfer(last') /\ pc' = "idle") =>
            file'.offset = last'.args.offset + Transferred(last')
       /\ IsOp(last', "seek") =>
            file'.offset = (IF last'.ret >= 0 THEN last'.ret ELSE file.offset)]_vars

(***************************************************************************)
(* Claims about writes under O_APPEND (SpecAppend).                        *)
(***************************************************************************)
\* The latest operation is a write on the open file, opened with O_APPEND.
AppendWrite == IsWrite(last) /\ file.open /\ file.append

\* C18: a write or safe write on a file opened with O_APPEND issues
\* FSFILE_GetSize before any remote write.  When that fails the call returns
\* -1 with the translated code and issues no remote write; when it succeeds
\* the first remote write goes to the size it reported, wherever the stored
\* offset was, and the stored offset is left at that size plus the bytes the
\* remote writes took.
C18_AppendWritesAtEnd ==
  AppendWrite =>
    /\ last.calls # <<>>
    /\ last.calls[1].fn = "FSFILE_GetSize"
    /\ \A i \in 2..Len(last.calls) : last.calls[i].fn = "FSFILE_Write"
    /\ R_FAILED(last.calls[1].rc) =>
         /\ last.ret = -1
         /\ last.err = sdmc_translate_error(last.calls[1].rc)
         /\ WriteCalls = {}
    /\ R_SUCCEEDED(last.calls[1].rc) =>
         /\ WriteCalls # {} => last.calls[2].offset = last.calls[1].size
         /\ file.offset = last.calls[1].size + SumAccepted

\* An appending write went to the end of a file whose size is past the
\* stored offset of the call, and took bytes.
C18_Witness ==
  /\ AppendWrite /\ pc = "idle"
  /\ last.ret > 0
  /\ last.args.offset < last.calls[1].size
  /\ last.calls[2].offset = last.calls[1].size

(***************************************************************************)
(* Claims about the archive handle (SpecArchive).                          *)
(***************************************************************************)
\* The latest operation is a handler of the device, not sdmcInit or sdmcExit.
DeviceOp(call) ==
  ~IsOp(call, "none") /\ ~IsOp(call, "sdmcInit") /\ ~IsOp(call, "sdmcExit")

OwnPathSent(t, fs_path) ==
  IF fs_path.err # 0
  THEN thread[t].ret = -1 /\ thread[t].err = fs_path.err /\ thread[t].calls = <<>>
  ELSE /\ Len(thread[t].calls) = 1
       /\ thread[t].calls[1].path = fs_path.data

\* C20: whichever way the steps of two threads running sdmc_unlink are
\* interleaved, __cwd staying as it is, the remote call of each thread
\* carries the encoding of the path that thread was given.
C20_ThreadsKeepOwnPath ==
  \A t \in Threads :
    thread[t].pc = "returned" => OwnPathSent(t, sdmc_utf16path(cwd, thread[t].path))

\* A thread issued its remote call while the other was between its
\* sdmc_fixpath and its return with another path.
C20_Witness ==
  \E t \in Threads :
    /\ thread[t].pc = "returned"
    /\ thread[t].calls # <<>>
    /\ \E other \in thread[t].beside : other # thread[t].path

(***************************************************************************)
(* Claims about sdmc_getmtime (SpecMtime).                                 *)
(***************************************************************************)
\* sdmc_getmtime reached FSUSER_ControlArchive.
StampAsked == IsOp(last, "getmtime") /\ IssuedRemote(last)
UnixSeconds(stamp) == (stamp \div 1000) + 946684800

C21_ConvertedOnZero ==
  StampAsked =>
    /\ last.calls[1].rc = 0 => last.out = UnixSeconds(last.calls[1].stamp)
    /\ R_FAILED(last.calls[1].rc) => last.out = last.calls[1].stamp

(***************************************************************************)
(* Claims about the two paths of sdmc_rename (SpecRename).                 *)
(***************************************************************************)
\* Every remote call of the record renames `from` to `to`.
RenamesPaths(call, from, to) ==
  \A i \in 1..Len(call.calls) : call.calls[i].path = from /\ call.calls[i].to = to

\* The record of an sdmc_rename, fs_old and fs_new being what sdmc_utf16path
\* makes of its two names.
RenameKeepsBoth(call, fs_old, fs_new) ==
  /\ (fs_old.err # 0 \/ fs_new.err # 0) => (call.ret = -1 /\ ~IssuedRemote(call))
  /\ (fs_old.err = 0 /\ fs_new.err = 0) =>
       (IssuedRemote(call) /\ RenamesPaths(call, fs_old.data, fs_new.data))

\* C22: the remote rename calls of sdmc_rename carry the encoding of oldName
\* as the old path and the encoding of newName as the new path, the second
\* encoding not overwriting the first, and no remote rename is issued when
\* newName (or oldName) does not encode.
C22_RenameKeepsBothPaths ==
  IsOp(last, "rename") =>
    RenameKeepsBoth(last, sdmc_utf16path(last.args.cwd, last.args.old),
                    sdmc_utf16path(last.args.cwd, last.args.new))

\* A rename between two names that encode to different paths went through
\* both remote calls.
C22_Witness ==
  /\ IsOp(last, "rename")
  /\ Len(last.calls) = 2
  /\ last.calls[1].path # last.calls[1].to
  /\ last.calls[2].path = last.calls[1].path
  /\ last.args.old = <<LETTER>>
  /\ last.args.new = <<LEAD2, CONT>>

(***************************************************************************)
(* The cursor of the directory batch (SpecDir).                            *)
(***************************************************************************)
\* The dirnext took an entry out of the batch: the one at the advanced cursor,
\* or the first of a batch FSDIR_Read has just filled.
EntryConsumed ==
  /\ IsOp(last, "dirnext")
  /\ \/ last.calls = <<>>
     \/ \E i \in ReadCalls : R_SUCCEEDED(last.calls[i].rc) /\ last.calls[i].entries > 0

\* C23: after diropen and any dirnext calls, FSDIR_Read failing or answering
\* with 0..max_entries entries, the cursor stays within -1..size and the size
\* within the max_entries of the batch, and an entry is taken only at a cursor
\* from 0 to size - 1.
C23_CursorWithinBatch ==
  dir.open =>
    /\ -1 <= dir.index
    /\ dir.index <= dir.size
    /\ dir.size <= max_entries
    /\ EntryConsumed => (0 <= dir.index /\ dir.index < dir.size)

C23_Witness ==
  /\ dir.open
  /\ EntryConsumed
  /\ last.calls = <<>>
  /\ dir.size = max_entries
  /\ dir.index = max_entries - 1
  /\ Len(returned) > max_entries

(***************************************************************************)
(* The loop of sdmc_write_safe, run to its end (SpecSafe).                 *)
(***************************************************************************)
\* Lines 541-569: a turn of the loop whose FSFILE_Write succeeds with no byte
\* written, after the MaxStalls turns write_safe_chunk has logged.  The code
\* adds 0 to file->offset, bytesWritten and ptr and takes 0 from len: the
\* loop is where it was.  The counter stops telling further stalls apart
\* except by their parity, so that each turn is a step between finitely many
\* states; the identical call is not logged again.
write_safe_stall(rcWrite) ==
  /\ pc = "write_safe"
  /\ R_SUCCEEDED(rcWrite)
  /\ ws.stalls >= MaxStalls
  /\ ws' = [ws EXCEPT !.stalls = IF @ = MaxStalls THEN MaxStalls + 1 ELSE MaxStalls]
  /\ pc' = "write_safe"
  /\ UNCHANGED <<lifeVars, cwd, fileVars, dirVars, handles, threadVars, last, prev>>

\* The handles sdmc_write_safe is called on.
SafeFlags == {f \in OpenFlags : f.acc # 3 /\ ~f.creat /\ ~f.trunc /\ ~f.sync}

\* A turn of the loop, whatever FSFILE_Write answers.
SafeTurn ==
  \/ \E rcWrite \in Results :
       \E bytes \in (IF R_SUCCEEDED(rcWrite) THEN 0..TmpBufferSize ELSE {0}) :
         write_safe_chunk(rcWrite, bytes)
  \/ \E rcWrite \in {0} : write_safe_stall(rcWrite)

SafeNext ==
  \/ \E path \in {p \in OpenPaths : ~file.open}, flags \in SafeFlags :
       \E rcOpen \in AnswersIf(sdmc_utf16path(cwd, path).err = 0) :
         \E size \in (IF R_SUCCEEDED(rcOpen) THEN 0..MaxSize ELSE {0}) :
           sdmc_open(path, flags, 0, rcOpen, 0, size)
  \/ \E rc \in Results : sdmc_close(rc)
  \/ \E len \in 0..MaxWriteLen, rcSize \in AnswersIf(file.append) :
       write_safe_begin(len, rcSize)
  \/ SafeTurn

\* The thread inside sdmc_write_safe keeps running and FSFILE_Write answers:
\* the loop takes its next turn.  What the FS service answers is left open.
SpecSafe == Init /\ [][SafeNext]_vars /\ WF_vars(SafeTurn)

\* C24: sdmc_write_safe returns after finitely many FSFILE_Write calls,
\* whatever each answers: a failure, or a success with 0 to toWrite bytes
\* written.
C24_SafeWriteTerminates == (pc = "write_safe") ~> (pc = "idle")

\* The loop returns once FSFILE_Write has stopped answering a success with no
\* byte written.
StallTurn == \E rcWrite \in {0} : write_safe_stall(rcWrite)
C24_TerminatesWithoutStalls == (<>[][~StallTurn]_vars) => C24_SafeWriteTerminates

(***************************************************************************)
(* The bounds of __fixedpath (SpecFix).                                    *)
(***************************************************************************)
\* The path behind the device prefix, and the length of what sdmc_fixpath
\* joins: the path itself when it starts with '/', else __cwd and the path.
AfterColon(p) ==
  SubSeq(p, (CHOOSE i \in ColonsAt(p) : \A j \in ColonsAt(p) : i <= j) + 1, Len(p))
BehindDevice(p) == IF ColonsAt(p) = {} THEN p ELSE AfterColon(p)
JoinedLen(call) ==
  IF ByteAt(BehindDevice(call.args.path), 1) = SLASH
  THEN Len(BehindDevice(call.args.path))
  ELSE Len(call.args.cwd) + Len(BehindDevice(call.args.path))
\* sdmc_fixpath got as far as the copy to __fixedpath.
FixpathJoined(call) == IsOp(call, "fixpath") /\ call.err \notin {EILSEQ, EINVAL}

\* sdmc_fixpath reports ENAMETOOLONG exactly when the joined path is longer
\* than PATH_MAX.
C25_TooLongExactly ==
  FixpathJoined(last) => (last.err = ENAMETOOLONG <=> JoinedLen(last) > PATH_MAX)

\* C25: for every __cwd and every path sdmc_fixpath writes to no index of
\* __fixedpath above PATH_MAX, and it reports ENAMETOOLONG exactly when the
\* joined path is longer than PATH_MAX.
C25_FixpathStaysInBuffer ==
  FixpathJoined(last) =>
    /\ last.top <= PATH_MAX
    /\ last.err = ENAMETOOLONG <=> JoinedLen(last) > PATH_MAX

(***************************************************************************)
(* What sdmcInitialised tells (SpecLife).                                  *)
(***************************************************************************)
\* The archive handle is open and the device is in the device table.
DeviceReady == archiveOpen /\ registered

\* The flag is set whenever the archive handle is open or the device is
\* registered.
C26_ReadyOnlyWhenInitialised == (archiveOpen \/ registered) => sdmcInitialised

\* C26: after any sdmcInit and sdmcExit calls, whatever FSUSER_OpenArchive,
\* AddDevice and FSUSER_CloseArchive answer, sdmcInitialised is true exactly
\* when the archive is open and the device registered; an sdmcInit whose
\* FSUSER_OpenArchive failed leaves the flag clear.
C26_InitialisedIffReady == sdmcInitialised <=> DeviceReady

(***************************************************************************)
(* Relative paths under the directory sdmc_chdir left (SpecFix).           *)
(***************************************************************************)
\* sdmc_fixpath was given a relative path without a device prefix, and
\* returned __fixedpath.
RelativeFixed(call) ==
  /\ IsOp(call, "fixpath")
  /\ call.err = 0
  /\ call.args.path # <<>>
  /\ call.args.path[1] # SLASH
  /\ ColonsAt(call.args.path) = {}

\* The entry P of the directory D: D, one '/' unless D ends with it, and P.
EntryOf(D, P) == (IF D[Len(D)] = SLASH THEN D ELSE Append(D, SLASH)) \o P

\* A failed sdmc_chdir leaves __cwd as it was.
C27_FailedChdirKeepsCwd ==
  (IsOp(last, "chdir") /\ last.ret = -1) => cwd = last.args.cwd

\* What sdmc_fixpath returns for a relative path is __cwd and the path with
\* nothing between them.
C27_JoinedWithoutSeparator ==
  RelativeFixed(last) => last.out = last.args.cwd \o last.args.path

\* C27: after a successful chdir to D, with or without a trailing '/',
\* sdmc_fixpath of a relative path P gives the entry P of D, D and P joined
\* by exactly one '/'; a failed chdir leaves __cwd unchanged.
C27_RelativeJoinsWithOneSlash ==
  /\ RelativeFixed(last) => last.out = EntryOf(last.args.cwd, last.args.path)
  /\ (IsOp(last, "chdir") /\ last.ret = -1) => cwd = last.args.cwd

=============================================================================
